---------------------------- MODULE Spec2Model ----------------------------
(***************************************************************************)
(* Meethub backend: the recommendation pipeline (RecommendationEngine,     *)
(* ScoringUtils, RecommendationDAO), the /recommendations handlers that    *)
(* post-process its output, and the requests that change the activity and  *)
(* log tables while a recommendation request is in progress.               *)
(*                                                                         *)
(* Numbers.  Scores are Python floats in [0, 100].  The model keeps a      *)
(* score as an integer number of 1/10000 of a point (Unit per point), so   *)
(* that round(x, 2), x * 0.5, x * 0.7, x * 0.49 and the +-8% noise are     *)
(* exact.  round(x, 2) is rounding to a multiple of 100 units; a tie is    *)
(* rounded to even (the code's ties depend on the binary representation).  *)
(* Weights are integer percents (0.35 is 35), similarities integer         *)
(* per-mille (round(x, 3)), times whole days relative to "now".            *)
(***************************************************************************)
EXTENDS Integers, Sequences, FiniteSets, TLC

(***************************************************************************)
(* Bounds of the model.                                                    *)
(***************************************************************************)
NumActivities == 3
NumUsers == 2
MaxCount == 2
MaxEnvSteps == 1
MaxDaysBeyond == 2
NumCalcUsers == 3
NumRegRequests == 2
MaxRegServed == 4
MaxEarlierRequests == 1
MaxInstant == 2
NumStatusRows == 1

(***************************************************************************)
(* Constants of the program.                                               *)
(***************************************************************************)
DefaultThresholdPct == 10
ViewedDemotionPct == 50
PenaltyPct == 70
NoisePermille == 80
DaysAhead == 30
DefaultHalfLife == 30
DefaultMaxViews == 1000
MinCommonActivities == 2
DefaultSimilarUsersLimit == 5
NeutralGradePoints == 50
FarFuturePoints == 20
MaxRating == 5

Unit == 100 * 100
Points(p) == p * Unit

Activities == 1..NumActivities
Users == 1..NumUsers

Status == {"draft", "published", "ongoing", "ended", "cancelled"}

(***************************************************************************)
(* Arithmetic helpers.                                                     *)
(***************************************************************************)
Min(a, b) == IF a <= b THEN a ELSE b
Max(a, b) == IF a >= b THEN a ELSE b

\* n / d rounded to the nearest integer, ties to even (d > 0).
RoundDiv(n, d) ==
    LET q == n \div d
        r == n % d
    IN  IF 2 * r < d THEN q
        ELSE IF 2 * r > d THEN q + 1
        ELSE IF q % 2 = 0 THEN q ELSE q + 1

\* round(n / d, 2) for a value n / d given in units.
Round2(n, d) == 100 * RoundDiv(n, 100 * d)

RECURSIVE SumOver(_, _)
SumOver(S, f) ==
    IF S = {} THEN 0
    ELSE LET x == CHOOSE y \in S : TRUE
         IN  f[x] + SumOver(S \ {x}, f)

RECURSIVE Pow2(_)
Pow2(k) == IF k <= 0 THEN 1 ELSE 2 * Pow2(k - 1)

SeqToSet(s) == {s[i] : i \in 1..Len(s)}
Take(s, n) == SubSeq(s, 1, Min(n, Len(s)))

\* list.sort(key=lambda x: x[field], reverse=True): stable, descending.
\* RankDesc is the position the element at index i is moved to.
RankDesc(s, field, i) ==
    Cardinality({j \in 1..Len(s) : s[j][field] > s[i][field]})
      + Cardinality({j \in 1..i : s[j][field] = s[i][field]})

SortDesc(s, field) ==
    [p \in 1..Len(s) |-> s[CHOOSE i \in 1..Len(s) : RankDesc(s, field, i) = p]]

IsSortedDesc(s, field) ==
    \A i \in 1..Len(s) - 1 : s[i][field] >= s[i + 1][field]

\* dict.get(key, default)
Get(d, key, default) == IF key \in DOMAIN d THEN d[key] ELSE default

(***************************************************************************)
(* ScoringUtils                                                            *)
(***************************************************************************)
calculate_tag_match_score(user_tags, activity_tags, activity_categories) ==
    IF user_tags = {} THEN 0
    ELSE LET all_activity_features == activity_tags \cup activity_categories
         IN  IF all_activity_features = {} THEN 0
             ELSE LET intersection ==
                          Cardinality(user_tags \cap all_activity_features)
                      union ==
                          Cardinality(user_tags \cup all_activity_features)
                  IN  Round2(Points(100) * intersection, union)

\* average_rating is in hundredths of a star; the three weights are percents.
calculate_hotness_score(views_count, registrations, max_participants, average_rating, views_weight, registration_weight, rating_weight, max_views) ==
    LET views_score ==
            RoundDiv(Points(100) * Min(views_count, max_views), max_views)
        registration_score ==
            IF max_participants > 0
            THEN RoundDiv(Points(100) * Min(registrations, max_participants),
                          max_participants)
            ELSE 0
        rating_score == RoundDiv(Points(100) * average_rating, 100 * MaxRating)
    IN  Round2(views_score * views_weight
                 + registration_score * registration_weight
                 + rating_score * rating_weight, 100)

\* 1000000 * 0.5 ^ (r / 30) for r = 0 .. 29.
HalfPowerTable ==
    << 1000000, 977160, 954842, 933033, 911722, 890899, 870551, 850667,
       831238, 812252, 793701, 775572, 757858, 740549, 723635, 707107,
       690956, 675175, 659754, 644685, 629961, 615572, 601513, 587774,
       574349, 561231, 548412, 535887, 523647, 511687 >>

\* base_score * 0.5 ^ (days / half_life), base_score = 100.  Exact when days
\* is a multiple of half_life; from the table when half_life is 30.
calculate_time_decay_score(days_since_reference, half_life_days) ==
    LET days_elapsed == Max(0, days_since_reference)
        k == days_elapsed \div half_life_days
        r == days_elapsed % half_life_days
        mantissa == IF r = 0 THEN Points(100)
                    ELSE HalfPowerTable[((r * 30) \div half_life_days) + 1]
    IN  Max(0, Min(Round2(mantissa, Pow2(k)), Points(100)))

\* weighted_fusion follows; before it, a fusion that adds the scores up
\* without their weights.
weighted_fusion_unweighted(scores, weights, normalize) ==
    IF DOMAIN scores = {} \/ DOMAIN weights = {} THEN 0
    ELSE SumOver(DOMAIN scores, scores)

weighted_fusion(scores, weights, normalize) ==
    IF DOMAIN scores = {} \/ DOMAIN weights = {} THEN 0
    ELSE LET total_weight == SumOver(DOMAIN weights, weights)
             weighted == [k \in DOMAIN scores |->
                             scores[k] * Get(weights, k, 0)]
             total_score == SumOver(DOMAIN scores, weighted)
         IN  IF total_weight <= 0 THEN 0
             ELSE IF normalize /\ total_weight # 100
                  THEN Round2(total_score, total_weight)
                  ELSE Round2(total_score, 100)

\* user_grade "" stands for a missing grade; target_grades is a set.
grade_match_score(user_grade, target_grades) ==
    IF user_grade = "" \/ target_grades = {} THEN Points(NeutralGradePoints)
    ELSE IF user_grade \in target_grades THEN Points(100)
    ELSE 0

\* In time_proximity_score, days_until_start is (start_time - now).days, and
\* negative when start_time <= now.  First, a time_proximity_score whose
\* ramp excludes its last day.
time_proximity_score_open(days_until_start, days_ahead) ==
    IF days_until_start < 0 THEN 0
    ELSE IF days_until_start < days_ahead
    THEN Round2(Points(100) * (days_ahead - days_until_start), days_ahead)
    ELSE Points(FarFuturePoints)

time_proximity_score(days_until_start, days_ahead) ==
    IF days_until_start < 0 THEN 0
    ELSE LET score ==
                 IF days_until_start <= days_ahead
                 THEN Round2(Points(100) * (days_ahead - days_until_start),
                             days_ahead)
                 ELSE Points(FarFuturePoints)
         IN  Max(0, score)


(***************************************************************************)
(* The data.  A user row carries profile_attributes (grade, hobby), the    *)
(* JSON column of the users table that the engine reads; the requester's   *)
(* interests are music and coding.  An activity row carries                *)
(* the content of one of ActivityProfiles: tags, target_audience           *)
(* (Targeted_people, Activity_class), start_time / end_time / created_at   *)
(* as whole days relative to now (start_days < 0: started, end_days < 0:   *)
(* over, age_days: days since created_at) and max_participants.            *)
(***************************************************************************)
profile_attributes(user_id) ==
    IF user_id % 2 = 1
    THEN [grade |-> "Y1", hobby |-> {"music", "coding"}]
    ELSE [grade |-> "", hobby |-> {"sports"}]

ActivityProfiles ==
    << [tags |-> {"music"}, Targeted_people |-> {}, Activity_class |-> {},
        start_days |-> 3, end_days |-> 5, age_days |-> 0,
        max_participants |-> 2],
       [tags |-> {"sports"}, Targeted_people |-> {"Y1"},
        Activity_class |-> {"academic"},
        start_days |-> 45, end_days |-> 50, age_days |-> 30,
        max_participants |-> 1],
       [tags |-> {"music", "coding"}, Targeted_people |-> {"Y2"},
        Activity_class |-> {},
        start_days |-> -1, end_days |-> 5, age_days |-> 60,
        max_participants |-> 3],
       [tags |-> {}, Targeted_people |-> {"Y2"}, Activity_class |-> {},
        start_days |-> 40, end_days |-> 41, age_days |-> 15,
        max_participants |-> 2],
       [tags |-> {"coding"}, Targeted_people |-> {}, Activity_class |-> {},
        start_days |-> -10, end_days |-> -1, age_days |-> 45,
        max_participants |-> 2],
       [tags |-> {"music"}, Targeted_people |-> {}, Activity_class |-> {},
        start_days |-> 15, end_days |-> 16, age_days |-> 5,
        max_participants |-> 2] >>

VARIABLES
    activities,     \* table activities: id -> [status, is_deleted, profile, bad_audience]
    user_logs,      \* table user_operation_logs: user -> activity -> number of view_activity rows
    registrations,  \* table registrations: set of [participant_id, activity_id, rating]
    pc,             \* where the recommendation request is
    params,         \* the request: endpoint, count, exclude_*, layer_weights, ...
    l1,             \* Layer 1's reads: [viewed, registered]
    cands,          \* the engine's candidate list, layer by layer
    survivors,      \* ids of the candidates Layer 1 kept
    recs,           \* what recommend_activities returned
    fl,             \* _filter_recommendations' locals: [viewed, registered, adjusted]
    idx,            \* loop index of the filter loop / the response loop
    final,          \* filtered_recommendations after noise, sort and truncation
    items,          \* recommended_items of the response being built
    log_results,    \* what log_activity_view returned, per logged item
    outcome,        \* "none" | "ok" | "error"
    env_steps,      \* requests of other clients taken so far
    call,           \* a direct call of a function of the core: its name and arguments
    result,         \* what that call returned
    reg_requests,   \* the /registrations requests in progress, per connection
    reg_served,     \* /registrations requests accepted so far
    served          \* the requests answered so far, in the order of their answers

dbvars == <<activities, user_logs, registrations>>
reqvars == <<pc, params, l1, cands, survivors, recs, fl, idx, final, items, log_results, outcome>>
callvars == <<call, result>>
regvars == <<reg_requests, reg_served>>
vars == <<activities, user_logs, registrations, pc, params, l1, cands, survivors, recs, fl, idx, final, items, log_results, outcome, env_steps, call, result, reg_requests, reg_served, served>>

\* Users.all(): the ids of the rows of the users table.
UserIds == DOMAIN user_logs

Content(a) == ActivityProfiles[activities[a].profile]

\* An Activities object as a query returns it: the row at the time of the query.
ActivityObject(a) ==
    [id |-> a, status |-> activities[a].status,
     is_deleted |-> activities[a].is_deleted,
     bad_audience |-> activities[a].bad_audience,
     content |-> Content(a)]

RECURSIVE SetToSeq(_)
SetToSeq(S) ==
    IF S = {} THEN <<>>
    ELSE LET m == CHOOSE x \in S : \A y \in S : x <= y
         IN  <<m>> \o SetToSeq(S \ {m})

(***************************************************************************)
(* RecommendationDAO                                                       *)
(***************************************************************************)
get_user_viewed_activities(user_id) ==
    {a \in Activities : user_logs[user_id][a] > 0}

get_user_registered_activities(user_id) ==
    {r.activity_id : r \in {x \in registrations : x.participant_id = user_id}}

\* Rows come back in primary-key order.
\* A candidate query that returns every row twice.
get_all_recommendable_activities_twice ==
    LET ids == {a \in Activities :
                    /\ ~activities[a].is_deleted
                    /\ activities[a].status \in {"published", "ongoing"}}
        rows == [i \in 1..Cardinality(ids) |-> ActivityObject(SetToSeq(ids)[i])]
    IN  rows \o rows

get_all_recommendable_activities ==
    LET ids == {a \in Activities :
                    /\ ~activities[a].is_deleted
                    /\ activities[a].status \in {"published", "ongoing"}}
    IN  [i \in 1..Cardinality(ids) |-> ActivityObject(SetToSeq(ids)[i])]

get_activities_engagement_stats(activity_ids) ==
    [a \in activity_ids |->
        LET rows == {r \in registrations : r.activity_id = a}
            rated == {r \in rows : r.rating > 0}
            stars == [r \in rated |-> r.rating]
        IN  [views |-> SumOver(UserIds, [u \in UserIds |-> user_logs[u][a]]),
             registrations |-> Cardinality(rows),
             average_rating |->
                 IF rated = {} THEN 0
                 ELSE RoundDiv(100 * SumOver(rated, stars), Cardinality(rated))]]

Engaged(user_id) ==
    get_user_viewed_activities(user_id) \cup get_user_registered_activities(user_id)

\* get_similar_users follows; before it, one that returns the qualifying
\* users in the order of the query, unsorted.
get_similar_users_unsorted(user_id, min_common_activities, limit) ==
    LET user_activities == Engaged(user_id)
        other_users == SetToSeq(UserIds \ {user_id})
        qualifies(o) ==
            Cardinality(user_activities \cap Engaged(o)) >= min_common_activities
        kept == SelectSeq(other_users, qualifies)
    IN  IF user_activities = {} THEN <<>>
        ELSE Take([i \in 1..Len(kept) |->
                      [user_id |-> kept[i],
                       similarity |->
                           RoundDiv(1000 * Cardinality(user_activities \cap Engaged(kept[i])),
                                    Cardinality(user_activities \cup Engaged(kept[i]))),
                       common_activities_count |->
                           Cardinality(user_activities \cap Engaged(kept[i]))]],
                  limit)

get_similar_users(user_id, min_common_activities, limit) ==
    LET user_activities == Engaged(user_id)
        other_users == SetToSeq(UserIds \ {user_id})
        qualifies(o) ==
            Cardinality(user_activities \cap Engaged(o)) >= min_common_activities
        entry(o) ==
            LET common_count == Cardinality(user_activities \cap Engaged(o))
                union_count == Cardinality(user_activities \cup Engaged(o))
            IN  [user_id |-> o,
                 similarity |-> IF union_count > 0
                                THEN RoundDiv(1000 * common_count, union_count)
                                ELSE 0,
                 common_activities_count |-> common_count]
        kept == SelectSeq(other_users, qualifies)
        similar_users_with_scores == [i \in 1..Len(kept) |-> entry(kept[i])]
    IN  IF user_activities = {} THEN <<>>
        ELSE Take(SortDesc(similar_users_with_scores, "similarity"), limit)

\* get_activities_from_similar_users follows; before it, one that scores
\* the activities the user has engaged with as well.
get_activities_from_similar_users_all(user_id, similar_users_limit) ==
    LET similar_users ==
            get_similar_users(user_id, MinCommonActivities, similar_users_limit)
        new_activities(i) == Engaged(similar_users[i].user_id)
        keys == UNION {new_activities(i) : i \in 1..Len(similar_users)}
    IN  [a \in keys |->
            SumOver({i \in 1..Len(similar_users) : a \in new_activities(i)},
                    [i \in 1..Len(similar_users) |-> similar_users[i].similarity])]

get_activities_from_similar_users(user_id, similar_users_limit) ==
    LET similar_users ==
            get_similar_users(user_id, MinCommonActivities, similar_users_limit)
        user_activities == Engaged(user_id)
        new_activities(i) == Engaged(similar_users[i].user_id) \ user_activities
        keys == UNION {new_activities(i) : i \in 1..Len(similar_users)}
    IN  [a \in keys |->
            SumOver({i \in 1..Len(similar_users) : a \in new_activities(i)},
                    [i \in 1..Len(similar_users) |-> similar_users[i].similarity])]

(***************************************************************************)
(* RecommendationEngine                                                    *)
(***************************************************************************)
DefaultLayerWeights ==
    [content_filter |-> 35, hotness |-> 20, collaborative |-> 25, freshness |-> 20]

DefaultHotnessWeights ==
    [views_weight |-> 30, registration_weight |-> 40, rating_weight |-> 30,
     max_views |-> DefaultMaxViews]

\* set(activity.target_audience.get('Activity_class', [])) raises TypeError
\* when the stored value is not iterable (target_audience is a free Dict).
ContentMatchRaises(activity) == activity.bad_audience

\* _calculate_content_match follows; before it, a content match that is the
\* tag score alone.
_calculate_content_match_tags_only(activity, user_profile) ==
    calculate_tag_match_score(user_profile.hobby, activity.content.tags,
                              activity.content.Activity_class)

_calculate_content_match(activity, user_profile) ==
    LET weights == [grade |-> 25, tags |-> 50, time |-> 25]
        scores ==
            [grade |-> grade_match_score(user_profile.grade,
                                         activity.content.Targeted_people),
             tags |-> calculate_tag_match_score(user_profile.hobby,
                                                activity.content.tags,
                                                activity.content.Activity_class),
             time |-> time_proximity_score(activity.content.start_days, DaysAhead)]
    IN  weighted_fusion(scores, weights, TRUE)

\* The loop of _layer_content_filter over all_activities; the reads of the
\* viewed and registered sets are its arguments.  First, a filter that
\* compares the demoted score with the threshold.
_layer_content_filter_late(user_viewed, user_registered, all_activities, user_profile, match_threshold) ==
    LET viewed_or_registered_ids == user_viewed \cup user_registered
        demoted(activity) ==
            IF activity.id \in viewed_or_registered_ids
            THEN (_calculate_content_match(activity, user_profile) * ViewedDemotionPct) \div 100
            ELSE _calculate_content_match(activity, user_profile)
        keep(activity) == demoted(activity) >= Points(match_threshold)
        kept == SelectSeq(all_activities, keep)
    IN  [i \in 1..Len(kept) |->
            [activity |-> kept[i],
             content_match_score |-> demoted(kept[i]),
             is_viewed_or_registered |-> kept[i].id \in viewed_or_registered_ids]]

_layer_content_filter(user_viewed, user_registered, all_activities, user_profile, match_threshold) ==
    LET viewed_or_registered_ids == user_viewed \cup user_registered
        keep(activity) ==
            _calculate_content_match(activity, user_profile) >= Points(match_threshold)
        kept == SelectSeq(all_activities, keep)
    IN  [i \in 1..Len(kept) |->
            LET activity == kept[i]
                content_match == _calculate_content_match(activity, user_profile)
                is_viewed_or_registered == activity.id \in viewed_or_registered_ids
            IN  [activity |-> activity,
                 content_match_score |->
                     IF is_viewed_or_registered
                     THEN (content_match * ViewedDemotionPct) \div 100
                     ELSE content_match,
                 is_viewed_or_registered |-> is_viewed_or_registered]]

\* _layer_hotness_ranking follows; before it, a Layer 2 that scores and does
\* not sort.
_layer_hotness_ranking_unsorted(activities_with_content_score, weight_config) ==
    LET activity_stats ==
            get_activities_engagement_stats(
                {activities_with_content_score[i].activity.id :
                     i \in 1..Len(activities_with_content_score)})
    IN  [i \in 1..Len(activities_with_content_score) |->
            ("hotness_score" :>
                calculate_hotness_score(
                    activity_stats[activities_with_content_score[i].activity.id].views,
                    activity_stats[activities_with_content_score[i].activity.id].registrations,
                    activities_with_content_score[i].activity.content.max_participants,
                    activity_stats[activities_with_content_score[i].activity.id].average_rating,
                    weight_config.views_weight, weight_config.registration_weight,
                    weight_config.rating_weight, weight_config.max_views))
            @@ activities_with_content_score[i]]

_layer_hotness_ranking(activities_with_content_score, weight_config) ==
    LET activity_ids ==
            {activities_with_content_score[i].activity.id :
                 i \in 1..Len(activities_with_content_score)}
        activity_stats == get_activities_engagement_stats(activity_ids)
        scored ==
            [i \in 1..Len(activities_with_content_score) |->
                LET item == activities_with_content_score[i]
                    stats == activity_stats[item.activity.id]
                IN  ("hotness_score" :>
                        calculate_hotness_score(
                            stats.views, stats.registrations,
                            item.activity.content.max_participants,
                            stats.average_rating,
                            weight_config.views_weight,
                            weight_config.registration_weight,
                            weight_config.rating_weight,
                            weight_config.max_views)) @@ item]
    IN  SortDesc(scored, "hotness_score")

\* (score / max_score) * 100, kept to 1/1000 of a point.
_layer_collaborative_filtering(user_id, similar_users_limit) ==
    LET collaborative_scores ==
            get_activities_from_similar_users(user_id, similar_users_limit)
        keys == DOMAIN collaborative_scores
        max_score == CHOOSE m \in {collaborative_scores[a] : a \in keys} :
                         \A a \in keys : collaborative_scores[a] <= m
    IN  IF keys = {} THEN collaborative_scores
        ELSE IF max_score > 0
             THEN [a \in keys |->
                      10 * RoundDiv(100000 * collaborative_scores[a], max_score)]
             ELSE collaborative_scores

_layer_freshness_decay(activities_with_hotness, half_life_days) ==
    [i \in 1..Len(activities_with_hotness) |->
        LET item == activities_with_hotness[i]
        IN  ("freshness_score" :>
                calculate_time_decay_score(item.activity.content.age_days,
                                           half_life_days)) @@ item]

\* _generate_reasons follows; before it, one whose comparisons are not strict.
_generate_reasons_inclusive(scores) ==
    LET reasons ==
            (IF scores.content_filter >= Points(70) THEN <<"interest">> ELSE <<>>)
         \o (IF scores.hotness >= Points(65) THEN <<"popular">> ELSE <<>>)
         \o (IF scores.freshness >= Points(70) THEN <<"fresh">> ELSE <<>>)
         \o (IF scores.collaborative >= Points(30) THEN <<"similar_users">> ELSE <<>>)
    IN  IF reasons = <<>> THEN <<"fallback">> ELSE reasons

_generate_reasons(scores) ==
    LET reasons ==
            (IF scores.content_filter > Points(70) THEN <<"interest">> ELSE <<>>)
         \o (IF scores.hotness > Points(65) THEN <<"popular">> ELSE <<>>)
         \o (IF scores.freshness > Points(70) THEN <<"fresh">> ELSE <<>>)
         \o (IF scores.collaborative > Points(30) THEN <<"similar_users">> ELSE <<>>)
    IN  IF reasons = <<>> THEN <<"fallback">> ELSE reasons

\* The recommendation dict of one candidate.
Recommendation(item, collaborative_scores, layer_weights) ==
    LET scores ==
            [content_filter |-> item.content_match_score,
             hotness |-> item.hotness_score,
             collaborative |-> Get(collaborative_scores, item.activity.id, 0),
             freshness |-> item.freshness_score]
    IN  [activity_id |-> item.activity.id,
         status |-> item.activity.status,
         recommendation_score |-> weighted_fusion(scores, layer_weights, TRUE),
         reasons |-> _generate_reasons(scores),
         score_breakdown |->
             [content_match |-> scores.content_filter,
              hotness |-> scores.hotness,
              collaborative |-> scores.collaborative,
              freshness |-> scores.freshness]]

_synthesize_scores(activities_with_all_scores, collaborative_scores, layer_weights, count) ==
    LET recommendations ==
            [i \in 1..Len(activities_with_all_scores) |->
                Recommendation(activities_with_all_scores[i],
                               collaborative_scores, layer_weights)]
    IN  Take(SortDesc(recommendations, "recommendation_score"), count)

\* recommend_activities run on one snapshot of the tables: what the call
\* returns when no write happens between its reads.
recommend_activities(user_id, count, layer_weights, content_match_threshold, hotness_weight_config, collaborative_users_limit, freshness_half_life) ==
    IF user_id \notin UserIds THEN <<>>
    ELSE LET content_filtered_activities ==
                 _layer_content_filter(get_user_viewed_activities(user_id),
                                       get_user_registered_activities(user_id),
                                       get_all_recommendable_activities,
                                       profile_attributes(user_id),
                                       content_match_threshold)
             hotness_scored ==
                 _layer_hotness_ranking(content_filtered_activities,
                                        hotness_weight_config)
             collaborative_scores ==
                 _layer_collaborative_filtering(user_id, collaborative_users_limit)
             freshness_scores ==
                 _layer_freshness_decay(hotness_scored, freshness_half_life)
         IN  IF content_filtered_activities = <<>> THEN <<>>
             ELSE _synthesize_scores(freshness_scores, collaborative_scores,
                                     layer_weights, count)

\* The tables recommend_activities queries: only users when the user lookup
\* finds no row.  First, a call that goes on to the layers whoever asks.
QueriedTables_all(user_id) ==
    {"users", "user_operation_logs", "registrations", "activities"}

QueriedTables(user_id) ==
    IF user_id \notin UserIds THEN {"users"}
    ELSE {"users", "user_operation_logs", "registrations", "activities"}

(***************************************************************************)
(* routers/recommendations.py: the post-processing helpers                 *)
(***************************************************************************)
\* penalty_factor of _filter_recommendations is a percent of a percent
\* (PenaltyFactor).  First, a penalty factor that never penalises.
PenaltyFactor_none(activity_id, exclude_viewed, viewed_activities, exclude_registered, registered_activities) ==
    100 * 100

PenaltyFactor(activity_id, exclude_viewed, viewed_activities, exclude_registered, registered_activities) ==
    (IF exclude_viewed /\ activity_id \in viewed_activities
     THEN PenaltyPct ELSE 100)
  * (IF exclude_registered /\ activity_id \in registered_activities
     THEN PenaltyPct ELSE 100)

\* FilterOne is one pass of the loop body of _filter_recommendations over rec,
\* appended to adjusted; activity_status is the status Activities.get_or_none
\* returned.  First, a loop body that drops the activities of the user's sets
\* instead of penalising them.
FilterOne_dropping(adjusted, rec, activity_status, exclude_viewed, viewed_activities, exclude_registered, registered_activities, exclude_ended) ==
    IF exclude_ended /\ activity_status = "ended" THEN adjusted
    ELSE IF PenaltyFactor(rec.activity_id, exclude_viewed, viewed_activities,
                          exclude_registered, registered_activities) < 100 * 100
    THEN adjusted
    ELSE Append(adjusted, rec)

FilterOne(adjusted, rec, activity_status, exclude_viewed, viewed_activities, exclude_registered, registered_activities, exclude_ended) ==
    IF exclude_ended /\ activity_status = "ended" THEN adjusted
    ELSE LET penalty_factor ==
                 PenaltyFactor(rec.activity_id, exclude_viewed, viewed_activities,
                               exclude_registered, registered_activities)
         IN  Append(adjusted,
                    IF penalty_factor < 100 * 100
                    THEN [rec EXCEPT !.recommendation_score =
                              (rec.recommendation_score * (penalty_factor \div 100))
                                  \div 100]
                    ELSE rec)

\* In _add_randomness_to_scores, noise[i] is random.uniform(-noise_factor,
\* noise_factor) for item i, in per-mille.  First, the noise without the sort
\* that follows it.
_add_randomness_to_scores_wide(recommendations, noise) ==
    SortDesc([i \in 1..Len(recommendations) |->
                 [recommendations[i] EXCEPT !.recommendation_score =
                      Round2(Max(0, recommendations[i].recommendation_score
                                        * (1000 + 2 * noise[i])), 1000)]],
             "recommendation_score")

_add_randomness_to_scores_ascending(recommendations, noise) ==
    LET randomized ==
            [i \in 1..Len(recommendations) |->
                [recommendations[i] EXCEPT !.recommendation_score =
                     Round2(Max(0, recommendations[i].recommendation_score
                                       * (1000 + noise[i])), 1000)]]
        sorted == SortDesc(randomized, "recommendation_score")
    IN  [p \in 1..Len(sorted) |-> sorted[Len(sorted) + 1 - p]]

_add_randomness_to_scores_unsorted(recommendations, noise) ==
    [i \in 1..Len(recommendations) |->
        [recommendations[i] EXCEPT !.recommendation_score =
             Round2(Max(0, recommendations[i].recommendation_score
                               * (1000 + noise[i])), 1000)]]

_add_randomness_to_scores(recommendations, noise) ==
    LET randomized ==
            [i \in 1..Len(recommendations) |->
                LET original_score == recommendations[i].recommendation_score
                    randomized_score ==
                        Max(0, original_score * (1000 + noise[i]))
                IN  [recommendations[i] EXCEPT !.recommendation_score =
                         Round2(randomized_score, 1000)]]
    IN  IF recommendations = <<>> THEN recommendations
        ELSE SortDesc(randomized, "recommendation_score")

\* RecommendedActivity(...) as the handlers build it from rec and the
\* activity fetched for the response.
RecommendedActivity(activity, rec) ==
    [activity |-> activity,
     recommendation_score |-> rec.recommendation_score,
     reasons |-> rec.reasons,
     score_breakdown |->
         [content_filter_score |-> Get(rec.score_breakdown, "content_filter", 0),
          hotness_score |-> Get(rec.score_breakdown, "hotness", 0),
          collaborative_score |-> Get(rec.score_breakdown, "collaborative", 0),
          freshness_score |-> Get(rec.score_breakdown, "freshness", 0),
          final_score |-> rec.recommendation_score]]

(***************************************************************************)
(* OperationLogger.log_activity_view: create_log_ok says whether the       *)
(* insert of the log row succeeded.  The try/except turns a failure into   *)
(* the return value False.  Before it, a log_activity_view without the     *)
(* try/except.                                                             *)
(***************************************************************************)
log_activity_view_raising(create_log_ok) ==
    [raised |-> ~create_log_ok, value |-> TRUE]

log_activity_view(create_log_ok) ==
    [raised |-> FALSE, value |-> create_log_ok]

(***************************************************************************)
(* The initial state: every activity published and not deleted, with the   *)
(* content of some profile; the view logs and registrations the users have *)
(* accumulated; no request in progress.                                    *)
(***************************************************************************)
NoiseLevels == {-NoisePermille, 0, NoisePermille}

DebugLayerWeights == {[collaborative |-> 100]}

NoParams ==
    [endpoint |-> "none", user_id |-> 0, count |-> 0,
     exclude_viewed |-> FALSE, exclude_registered |-> FALSE,
     exclude_ended |-> FALSE, layer_weights |-> DefaultLayerWeights,
     content_match_threshold |-> DefaultThresholdPct,
     collaborative_users_limit |-> DefaultSimilarUsersLimit,
     freshness_half_life |-> DefaultHalfLife]

NoCall == [op |-> "none"]

\* A connection with no /registrations request on it.
NoRegRequest == [op |-> "none", pc |-> "idle"]

NoLocals == [viewed |-> {}, registered |-> {}, adjusted |-> <<>>]

Requesters == {1}

InitProfiles ==
    {f \in [Activities -> 1..Len(ActivityProfiles)] :
        \A a \in Activities : f[a] = ((a - 1) % Len(ActivityProfiles)) + 1}

InitLogs ==
    {f \in [Users -> [Activities -> {0, 1}]] :
        /\ \A u \in Requesters : \A a \in Activities \ {1} :
               f[u][a] = (IF a = 2 THEN f[u][1] ELSE 0)
        /\ \A u \in Users \ Requesters : \A a \in Activities : f[u][a] = f[u][1]}

InitRegistrations ==
    {{}, {[participant_id |-> 1, activity_id |-> 1, rating |-> 4],
          [participant_id |-> 2, activity_id |-> 2, rating |-> 0]}}

Init ==
    /\ \E f \in InitProfiles :
           activities = [a \in Activities |->
                            [status |-> "published", is_deleted |-> FALSE,
                             bad_audience |-> FALSE, profile |-> f[a]]]
    /\ user_logs \in InitLogs
    /\ registrations \in InitRegistrations
    /\ pc = "idle"
    /\ params = NoParams
    /\ l1 = NoLocals
    /\ cands = <<>>
    /\ survivors = {}
    /\ recs = <<>>
    /\ fl = NoLocals
    /\ idx = 0
    /\ final = <<>>
    /\ items = <<>>
    /\ log_results = <<>>
    /\ outcome = "none"
    /\ env_steps = 0
    /\ call = NoCall
    /\ result = NoCall
    /\ reg_requests = [c \in 1..NumRegRequests |-> NoRegRequest]
    /\ reg_served = 0
    /\ served = <<>>

(***************************************************************************)
(* get_recommendations_for_current_user / get_recommendations_with_debug.  *)
(* One action per stretch of the handler between two awaits on the         *)
(* database.  The debug handler differs in the arguments it passes to the  *)
(* engine (layer_weights) and in reading the user's preference profile     *)
(* before it builds the response, a read that changes nothing.             *)
(***************************************************************************)

\* _add_randomness_to_scores, the truncation to count, and the start of the
\* response loop (or the empty response).
Finish(filtered_recommendations) ==
    \E noise \in [1..Len(filtered_recommendations) -> NoiseLevels] :
        LET truncated ==
                Take(_add_randomness_to_scores(filtered_recommendations, noise),
                     params.count)
        IN  /\ final' = truncated
            /\ idx' = 1
            /\ IF truncated = <<>>
               THEN pc' = "done" /\ outcome' = "ok"
               ELSE pc' = "b_fetch" /\ outcome' = outcome

\* The loop of _filter_recommendations when exclude_ended is off: no await.
RECURSIVE FilterAll(_, _, _)
FilterAll(adjusted, recommendations, locals) ==
    IF recommendations = <<>> THEN adjusted
    ELSE FilterAll(FilterOne(adjusted, Head(recommendations), "published",
                             params.exclude_viewed, locals.viewed,
                             params.exclude_registered, locals.registered,
                             FALSE),
                   Tail(recommendations), locals)

\* What follows _filter_recommendations in the handler: the re-sort, then
\* Finish.
AfterFilter(adjusted_recommendations) ==
    Finish(SortDesc(adjusted_recommendations, "recommendation_score"))

\* _filter_recommendations after its reads of the viewed / registered sets.
FilterLoop(locals) ==
    IF params.exclude_ended
    THEN /\ pc' = "f_item"
         /\ idx' = 1
         /\ fl' = locals
         /\ UNCHANGED <<final, outcome>>
    ELSE LET adjusted == FilterAll(<<>>, recs, locals)
         IN  /\ fl' = [locals EXCEPT !.adjusted = adjusted]
             /\ AfterFilter(adjusted)

\* The handler once recommend_activities has returned recommendations.
HandlerAfterEngine(recommendations) ==
    /\ recs' = recommendations
    /\ IF params.exclude_viewed \/ params.exclude_registered \/ params.exclude_ended
       THEN IF recommendations = <<>>
            THEN fl' = fl /\ AfterFilter(<<>>)
            ELSE /\ fl' = NoLocals
                 /\ idx' = 1
                 /\ pc' = IF params.exclude_viewed THEN "f_viewed"
                          ELSE IF params.exclude_registered THEN "f_registered"
                          ELSE "f_item"
                 /\ UNCHANGED <<final, outcome>>
       ELSE fl' = fl /\ Finish(recommendations)

StartRequest(endpoint, user_id, count, exclude_viewed, exclude_registered, exclude_ended, layer_weights) ==
    /\ pc = "idle"
    /\ params' = [NoParams EXCEPT !.endpoint = endpoint, !.user_id = user_id,
                      !.count = count, !.exclude_viewed = exclude_viewed,
                      !.exclude_registered = exclude_registered,
                      !.exclude_ended = exclude_ended,
                      !.layer_weights = layer_weights]
    /\ pc' = "l1_viewed"
    /\ UNCHANGED <<dbvars, l1, cands, survivors, recs, fl, idx, final, items, log_results, outcome, env_steps, call, result, reg_requests, reg_served, served>>

ForMe ==
    \E user_id \in Requesters, count \in 1..MaxCount, ev, er, ee \in BOOLEAN :
        StartRequest("for-me", user_id, count, ev, er, ee, DefaultLayerWeights)

Debug ==
    \E user_id \in Requesters, count \in 1..MaxCount, ev, er, ee \in BOOLEAN :
        \E layer_weights \in DebugLayerWeights :
            StartRequest("debug", user_id, count, ev, er, ee, layer_weights)

L1Viewed ==
    /\ pc = "l1_viewed"
    /\ l1' = [l1 EXCEPT !.viewed = get_user_viewed_activities(params.user_id)]
    /\ pc' = "l1_registered"
    /\ UNCHANGED <<dbvars, params, cands, survivors, recs, fl, idx, final, items, log_results, outcome, env_steps, call, result, reg_requests, reg_served, served>>

L1Registered ==
    /\ pc = "l1_registered"
    /\ l1' = [l1 EXCEPT !.registered = get_user_registered_activities(params.user_id)]
    /\ pc' = "l1_fetch"
    /\ UNCHANGED <<dbvars, params, cands, survivors, recs, fl, idx, final, items, log_results, outcome, env_steps, call, result, reg_requests, reg_served, served>>

\* The rest of _layer_content_filter: the query for the candidates and the
\* loop over them.  An exception leaves the engine and the handler answers
\* 500.
L1Fetch ==
    /\ pc = "l1_fetch"
    /\ LET all_activities == get_all_recommendable_activities
           filtered_activities ==
               _layer_content_filter(l1.viewed, l1.registered, all_activities,
                                     profile_attributes(params.user_id),
                                     params.content_match_threshold)
       IN  IF all_activities = <<>>
           THEN /\ HandlerAfterEngine(<<>>)
                /\ UNCHANGED <<cands, survivors>>
           ELSE IF \E i \in 1..Len(all_activities) :
                       ContentMatchRaises(all_activities[i])
           THEN /\ pc' = "done"
                /\ outcome' = "error"
                /\ UNCHANGED <<cands, survivors, recs, fl, idx, final>>
           ELSE IF filtered_activities = <<>>
           THEN /\ HandlerAfterEngine(<<>>)
                /\ UNCHANGED <<cands, survivors>>
           ELSE /\ cands' = filtered_activities
                /\ survivors' = {filtered_activities[i].activity.id :
                                     i \in 1..Len(filtered_activities)}
                /\ pc' = "hotness"
                /\ UNCHANGED <<recs, fl, idx, final, outcome>>
    /\ UNCHANGED <<dbvars, params, l1, items, log_results, env_steps, call, result, reg_requests, reg_served, served>>

\* Layer 2 follows; before it, a Layer 2 that records a view of the
\* candidate it ranks first.
Hotness_writing ==
    /\ pc = "hotness"
    /\ cands' = _layer_hotness_ranking(cands, DefaultHotnessWeights)
    /\ user_logs' = [user_logs EXCEPT ![params.user_id][cands[1].activity.id] = @ + 1]
    /\ pc' = "collab"
    /\ UNCHANGED <<activities, registrations, params, l1, survivors, recs, fl, idx, final, items, log_results, outcome, env_steps, call, result, reg_requests, reg_served, served>>

Hotness ==
    /\ pc = "hotness"
    /\ cands' = _layer_hotness_ranking(cands, DefaultHotnessWeights)
    /\ pc' = "collab"
    /\ UNCHANGED <<dbvars, params, l1, survivors, recs, fl, idx, final, items, log_results, outcome, env_steps, call, result, reg_requests, reg_served, served>>

\* Layer 3's reads, then Layer 4 and the synthesis, which read nothing, and
\* the return to the handler.
Collab ==
    /\ pc = "collab"
    /\ LET collaborative_scores ==
               _layer_collaborative_filtering(params.user_id,
                                              params.collaborative_users_limit)
           freshness_scores ==
               _layer_freshness_decay(cands, params.freshness_half_life)
       IN  /\ cands' = freshness_scores
           /\ HandlerAfterEngine(
                  _synthesize_scores(freshness_scores, collaborative_scores,
                                     params.layer_weights, params.count))
    /\ UNCHANGED <<dbvars, params, l1, survivors, items, log_results, env_steps, call, result, reg_requests, reg_served, served>>

FViewed ==
    /\ pc = "f_viewed"
    /\ LET locals == [fl EXCEPT !.viewed = get_user_viewed_activities(params.user_id)]
       IN  IF params.exclude_registered
           THEN /\ fl' = locals
                /\ pc' = "f_registered"
                /\ UNCHANGED <<idx, final, outcome>>
           ELSE FilterLoop(locals)
    /\ UNCHANGED <<dbvars, params, l1, cands, survivors, recs, items, log_results, env_steps, call, result, reg_requests, reg_served, served>>

FRegistered ==
    /\ pc = "f_registered"
    /\ FilterLoop([fl EXCEPT !.registered =
                       get_user_registered_activities(params.user_id)])
    /\ UNCHANGED <<dbvars, params, l1, cands, survivors, recs, items, log_results, env_steps, call, result, reg_requests, reg_served, served>>

\* One turn of the filter loop with exclude_ended: the status read and the
\* loop body; after the last one, the rest of the handler up to the next read.
FItem ==
    /\ pc = "f_item"
    /\ LET rec == recs[idx]
           adjusted ==
               FilterOne(fl.adjusted, rec, activities[rec.activity_id].status,
                         params.exclude_viewed, fl.viewed,
                         params.exclude_registered, fl.registered,
                         params.exclude_ended)
       IN  /\ fl' = [fl EXCEPT !.adjusted = adjusted]
           /\ IF idx < Len(recs)
              THEN /\ idx' = idx + 1
                   /\ UNCHANGED <<pc, final, outcome>>
              ELSE AfterFilter(adjusted)
    /\ UNCHANGED <<dbvars, params, l1, cands, survivors, recs, items, log_results, env_steps, call, result, reg_requests, reg_served, served>>

\* Activities.get_or_none(id=...) for the response item, and the item.
BFetch ==
    /\ pc = "b_fetch"
    /\ items' = Append(items,
                       RecommendedActivity(ActivityObject(final[idx].activity_id),
                                           final[idx]))
    /\ pc' = "b_log"
    /\ UNCHANGED <<dbvars, params, l1, cands, survivors, recs, fl, idx, final, log_results, outcome, env_steps, call, result, reg_requests, reg_served, served>>

\* A response loop whose log_activity_view reports success and inserts no
\* row.
BLog_unwritten ==
    /\ pc = "b_log"
    /\ \E create_log_ok \in BOOLEAN :
           LET logged == log_activity_view(create_log_ok)
           IN  /\ log_results' = Append(log_results, logged.value)
               /\ IF idx < Len(final)
                  THEN /\ idx' = idx + 1
                       /\ pc' = "b_fetch"
                       /\ outcome' = outcome
                  ELSE /\ idx' = idx
                       /\ pc' = "done"
                       /\ outcome' = "ok"
    /\ UNCHANGED <<dbvars, params, l1, cands, survivors, recs, fl, final, items, env_steps, call, result, reg_requests, reg_served, served>>

\* log_activity_view for the item just built, then the next item or the
\* response.
BLog ==
    /\ pc = "b_log"
    /\ \E create_log_ok \in BOOLEAN :
           LET logged == log_activity_view(create_log_ok)
               activity_id == final[idx].activity_id
           IN  /\ user_logs' =
                      IF create_log_ok
                      THEN [user_logs EXCEPT ![params.user_id][activity_id] = @ + 1]
                      ELSE user_logs
               /\ IF logged.raised
                  THEN /\ pc' = "done"
                       /\ outcome' = "error"
                       /\ UNCHANGED <<idx, log_results>>
                  ELSE /\ log_results' = Append(log_results, logged.value)
                       /\ IF idx < Len(final)
                          THEN /\ idx' = idx + 1
                               /\ pc' = "b_fetch"
                               /\ outcome' = outcome
                          ELSE /\ idx' = idx
                               /\ pc' = "done"
                               /\ outcome' = "ok"
    /\ UNCHANGED <<activities, registrations, params, l1, cands, survivors, recs, fl, final, items, env_steps, call, result, reg_requests, reg_served, served>>

(***************************************************************************)
(* Requests of other clients and the status updater, which run between     *)
(* the awaits of the recommendation request.                               *)
(***************************************************************************)
\* At most MaxEnvSteps of them happen, and none once the recommendation
\* request has been answered.
EnvStep ==
    /\ pc # "done"
    /\ env_steps < MaxEnvSteps
    /\ env_steps' = env_steps + 1
    /\ UNCHANGED <<reqvars, callvars, regvars>>

\* PATCH /activities/{id}/status -> ActivityDAO.update_activity_status
update_activity_status(activity_id, status) ==
    /\ ~activities[activity_id].is_deleted
    /\ activities[activity_id].status # status
    /\ activities' = [activities EXCEPT ![activity_id].status = status]
    /\ UNCHANGED <<user_logs, registrations, served>>
    /\ EnvStep

\* DELETE /activities/{id} -> ActivityDAO.soft_delete
soft_delete(activity_id) ==
    /\ ~activities[activity_id].is_deleted
    /\ activities' = [activities EXCEPT ![activity_id].is_deleted = TRUE]
    /\ UNCHANGED <<user_logs, registrations, served>>
    /\ EnvStep

\* PUT /activities/{id} with a target_audience whose Activity_class is not
\* a list.
update_activity(activity_id) ==
    /\ ~activities[activity_id].is_deleted
    /\ ~activities[activity_id].bad_audience
    /\ activities' = [activities EXCEPT ![activity_id].bad_audience = TRUE]
    /\ UNCHANGED <<user_logs, registrations, served>>
    /\ EnvStep

\* GET /activities/{id}: the view log of the caller.
get_activity_details(user_id, activity_id) ==
    /\ ~activities[activity_id].is_deleted
    /\ user_logs' = [user_logs EXCEPT ![user_id][activity_id] = @ + 1]
    /\ UNCHANGED <<activities, registrations, served>>
    /\ EnvStep

\* StatusUpdater.auto_update_statuses: its three UPDATE statements, in order.
auto_update_statuses ==
    LET started(a) == Content(a).start_days <= 0
        over(a) == Content(a).end_days <= 0
        first == [a \in Activities |->
                     IF /\ activities[a].status \in {"published", "ended"}
                        /\ started(a) /\ ~over(a) /\ ~activities[a].is_deleted
                     THEN "ongoing" ELSE activities[a].status]
        second == [a \in Activities |->
                      IF /\ first[a] \in {"published", "ongoing"}
                         /\ over(a) /\ ~activities[a].is_deleted
                      THEN "ended" ELSE first[a]]
        third == [a \in Activities |->
                     IF /\ second[a] \in {"ongoing", "ended"}
                        /\ ~started(a) /\ ~activities[a].is_deleted
                     THEN "published" ELSE second[a]]
    IN  /\ activities' = [a \in Activities |->
                             [activities[a] EXCEPT !.status = third[a]]]
        /\ activities' # activities
        /\ UNCHANGED <<user_logs, registrations, served>>
        /\ EnvStep

Next ==
    \/ ForMe
    \/ Debug
    \/ L1Viewed
    \/ L1Registered
    \/ L1Fetch
    \/ Hotness
    \/ Collab
    \/ FViewed
    \/ FRegistered
    \/ FItem
    \/ BFetch
    \/ BLog
    \/ \E a \in Activities, s \in Status : update_activity_status(a, s)
    \/ \E a \in Activities : soft_delete(a)
    \/ \E a \in Activities : update_activity(a)
    \/ \E u \in Users, a \in Activities : get_activity_details(u, a)
    \/ auto_update_statuses

Spec == Init /\ [][Next]_vars

(***************************************************************************)
(* A session: for-me requests of one user, one after the other, with the   *)
(* views of activity pages and the deletions of log rows by an             *)
(* administrator between their awaits.                                     *)
(***************************************************************************)
\* The answers of recommendation requests among served.
RecommendationsServed == SelectSeq(served, LAMBDA r : r.op # "delete_log")

\* The handler returns: the response goes out and the locals of the request
\* are gone.  A 500 carries no item.
Respond ==
    /\ pc = "done"
    /\ Len(RecommendationsServed) < MaxEarlierRequests
    /\ served' = Append(served,
           [op |-> params.endpoint, user_id |-> params.user_id,
            activity_ids |-> IF outcome = "ok"
                             THEN {items[i].activity.id : i \in 1..Len(items)}
                             ELSE {},
            logged |-> {items[i].activity.id :
                            i \in {k \in 1..Len(log_results) : log_results[k]}}])
    /\ pc' = "idle"
    /\ params' = NoParams
    /\ l1' = NoLocals
    /\ cands' = <<>>
    /\ survivors' = {}
    /\ recs' = <<>>
    /\ fl' = NoLocals
    /\ idx' = 0
    /\ final' = <<>>
    /\ items' = <<>>
    /\ log_results' = <<>>
    /\ outcome' = "none"
    /\ UNCHANGED <<dbvars, env_steps, callvars, regvars>>

\* DELETE /user-logs/{log_id} on a view_activity row of user_id for
\* activity_id: get_by_id finds the row, BaseDAO.delete removes it.
delete_log(user_id, activity_id) ==
    /\ user_logs[user_id][activity_id] > 0
    /\ user_logs' = [user_logs EXCEPT ![user_id][activity_id] = @ - 1]
    /\ served' = Append(served,
           [op |-> "delete_log", user_id |-> user_id,
            activity_ids |-> {activity_id}, logged |-> {}])
    /\ UNCHANGED <<activities, registrations>>
    /\ EnvStep

InitSession ==
    /\ Init
    /\ user_logs = [u \in Users |-> [a \in Activities |-> 0]]
    /\ registrations = {}

NextSession ==
    \/ ForMe
    \/ L1Viewed
    \/ L1Registered
    \/ L1Fetch
    \/ Hotness
    \/ Collab
    \/ FViewed
    \/ FRegistered
    \/ FItem
    \/ BFetch
    \/ BLog
    \/ Respond
    \/ \E u \in Users, a \in Activities : get_activity_details(u, a)
    \/ \E u \in Users, a \in Activities : delete_log(u, a)

SpecSession == InitSession /\ [][NextSession]_vars



(***************************************************************************)
(* Direct calls of the pure functions of ScoringUtils and of               *)
(* _generate_reasons: the initial state holds the call, the action applies *)
(* the function.  The tables are empty of logs and registrations and no    *)
(* request runs.                                                           *)
(***************************************************************************)
Idle ==
    /\ pc = "idle"
    /\ params = NoParams
    /\ l1 = NoLocals
    /\ cands = <<>>
    /\ survivors = {}
    /\ recs = <<>>
    /\ fl = NoLocals
    /\ idx = 0
    /\ final = <<>>
    /\ items = <<>>
    /\ log_results = <<>>
    /\ outcome = "none"
    /\ env_steps = 0
    /\ reg_requests = [c \in 1..NumRegRequests |-> NoRegRequest]
    /\ reg_served = 0
    /\ served = <<>>

\* Scores with two decimals around the values the functions compare with.
FusionScores == {0, Points(20), Points(50) + 100, Points(100)}
FusionWeights == {-50, 0, 30, 50, 70, 100, 150}
FusionKeys == {"grade", "tags", "time"}

WeightedFusionCalls ==
    {[op |-> "weighted_fusion", scores |-> sc, weights |-> w] :
        sc \in [{"grade", "tags"} -> FusionScores],
        w \in UNION {[K -> FusionWeights] : K \in SUBSET FusionKeys \ {{}}}}

TimeProximityCalls ==
    {[op |-> "time_proximity_score", days_until_start |-> d, days_ahead |-> n] :
        d \in -2..(DaysAhead + MaxDaysBeyond), n \in {DaysAhead, DaysAhead \div 3}}

ReasonScores ==
    [content_filter : {0, Points(70), Points(70) + 100},
     hotness : {0, Points(65), Points(65) + 100},
     freshness : {0, Points(70), Points(70) + 100},
     collaborative : {0, Points(30), Points(30) + 100}]

GenerateReasonsCalls ==
    {[op |-> "_generate_reasons", scores |-> sc] : sc \in ReasonScores}

\* Pre-noise scores: engine scores of two decimals, and the 0.7 and 0.49
\* multiples of 0.02 that the penalties of _filter_recommendations leave.
NoiseScores == {0, 98, 140, Points(50), Points(60)}

\* random.uniform(-0.08, 0.08), in thousandths: both ends and two values
\* between.
NoiseDraws == {-NoisePermille, -30, 45, NoisePermille}

AddRandomnessCalls ==
    {[op |-> "_add_randomness_to_scores",
      recommendations |-> [i \in DOMAIN sc |->
                              [activity_id |-> i, recommendation_score |-> sc[i]]]] :
        sc \in UNION {[1..n -> NoiseScores] : n \in 2..NumActivities}}

InitScoring ==
    /\ activities = [a \in Activities |->
                        [status |-> "published", is_deleted |-> FALSE,
                         bad_audience |-> FALSE,
                         profile |-> ((a - 1) % Len(ActivityProfiles)) + 1]]
    /\ user_logs = [u \in Users |-> [a \in Activities |-> 0]]
    /\ registrations = {}
    /\ Idle
    /\ call \in WeightedFusionCalls \cup TimeProximityCalls \cup GenerateReasonsCalls
                  \cup AddRandomnessCalls
    /\ result = NoCall

Returns(value) ==
    /\ result = NoCall
    /\ result' = [op |-> call.op, value |-> value]
    /\ UNCHANGED <<dbvars, reqvars, env_steps, call, regvars, served>>

CallWeightedFusion ==
    /\ call.op = "weighted_fusion"
    /\ Returns(weighted_fusion(call.scores, call.weights, TRUE))

CallTimeProximityScore ==
    /\ call.op = "time_proximity_score"
    /\ Returns(time_proximity_score(call.days_until_start, call.days_ahead))

CallGenerateReasons ==
    /\ call.op = "_generate_reasons"
    /\ Returns(_generate_reasons(call.scores))

\* One draw of random.uniform per item.
CallAddRandomnessToScores ==
    /\ call.op = "_add_randomness_to_scores"
    /\ \E noise \in [DOMAIN call.recommendations -> NoiseDraws] :
           Returns(_add_randomness_to_scores(call.recommendations, noise))

NextScoring ==
    \/ CallWeightedFusion
    \/ CallTimeProximityScore
    \/ CallGenerateReasons
    \/ CallAddRandomnessToScores

SpecScoring == InitScoring /\ [][NextScoring]_vars

(***************************************************************************)
(* Direct calls of the engine and of the DAO on a stored snapshot: the     *)
(* initial state holds the tables (NumCalcUsers users with their view logs *)
(* and registrations) and the call; the action runs the call to its        *)
(* return with no other request in between.  User id 0 has no row.         *)
(***************************************************************************)
CalcUsers == 1..NumCalcUsers

Callers == {1, 2}

UnknownUserId == 0

\* Every weight 1.0: a hotness_weight_config the engine takes as it is.
FullHotnessWeights ==
    [views_weight |-> 100, registration_weight |-> 100, rating_weight |-> 100,
     max_views |-> DefaultMaxViews]

ProfileShifts == {0, 3}

ThresholdsPct == {DefaultThresholdPct, 2 * DefaultThresholdPct, 6 * DefaultThresholdPct}

GetSimilarUsersCalls ==
    {[op |-> "get_similar_users", user_id |-> u, min_common_activities |-> m, limit |-> n] :
        u \in Callers, m \in 1..MinCommonActivities, n \in 1..(NumCalcUsers - 1)}

GetActivitiesFromSimilarUsersCalls ==
    {[op |-> "get_activities_from_similar_users", user_id |-> u, similar_users_limit |-> n] :
        u \in Callers, n \in {1, DefaultSimilarUsersLimit}}

RecommendActivitiesCalls ==
    {[op |-> "recommend_activities", user_id |-> u, count |-> c, layer_weights |-> lw, hotness_weight_config |-> hw] :
        u \in Callers \cup {UnknownUserId}, c \in {1, NumActivities},
        lw \in {DefaultLayerWeights} \cup DebugLayerWeights,
        hw \in {DefaultHotnessWeights, FullHotnessWeights}}

LayerContentFilterCalls ==
    {[op |-> "_layer_content_filter", user_id |-> u, match_threshold |-> t] :
        u \in Callers, t \in ThresholdsPct}

InitData ==
    /\ \E k \in ProfileShifts :
           activities = [a \in Activities |->
                            [status |-> "published", is_deleted |-> FALSE,
                             bad_audience |-> FALSE,
                             profile |-> ((a - 1 + k) % Len(ActivityProfiles)) + 1]]
    /\ user_logs \in [CalcUsers -> [Activities -> {0, 1}]]
    /\ registrations \in InitRegistrations
    /\ Idle
    /\ call \in GetSimilarUsersCalls \cup GetActivitiesFromSimilarUsersCalls
                  \cup RecommendActivitiesCalls \cup LayerContentFilterCalls
    /\ result = NoCall

CallGetSimilarUsers ==
    /\ call.op = "get_similar_users"
    /\ Returns(get_similar_users(call.user_id, call.min_common_activities, call.limit))

CallGetActivitiesFromSimilarUsers ==
    /\ call.op = "get_activities_from_similar_users"
    /\ Returns(get_activities_from_similar_users(call.user_id, call.similar_users_limit))

\* The value is the returned list together with the tables the call queried.
CallRecommendActivities ==
    /\ call.op = "recommend_activities"
    /\ Returns([recommendations |->
                    recommend_activities(call.user_id, call.count,
                                         call.layer_weights, DefaultThresholdPct,
                                         call.hotness_weight_config,
                                         DefaultSimilarUsersLimit, DefaultHalfLife),
                queried |-> QueriedTables(call.user_id)])

CallLayerContentFilter ==
    /\ call.op = "_layer_content_filter"
    /\ Returns(_layer_content_filter(get_user_viewed_activities(call.user_id),
                                     get_user_registered_activities(call.user_id),
                                     get_all_recommendable_activities,
                                     profile_attributes(call.user_id),
                                     call.match_threshold))

NextData ==
    \/ CallGetSimilarUsers
    \/ CallGetActivitiesFromSimilarUsers
    \/ CallRecommendActivities
    \/ CallLayerContentFilter

SpecData == InitData /\ [][NextData]_vars

(***************************************************************************)
(* StatusUpdater on a drawn activities table: rows holds, for each         *)
(* activity, status, is_deleted, start_time and end_time; times and now    *)
(* are instants in 0..MaxInstant.                                          *)
(***************************************************************************)
\* _check_and_fix_activity_statuses: the rows the filter selects get the
\* status their times call for; activity.save() writes it when it differs.
_check_and_fix_activity_statuses(rows, now) ==
    [a \in DOMAIN rows |->
        LET activity == rows[a]
            correct_status ==
                IF now < activity.start_time THEN "published"
                ELSE IF activity.start_time <= now /\ now < activity.end_time
                THEN "ongoing"
                ELSE "ended"
        IN  IF /\ activity.status \in {"published", "ongoing", "ended"}
               /\ ~activity.is_deleted
               /\ activity.status # correct_status
            THEN [activity EXCEPT !.status = correct_status]
            ELSE activity]

\* The three UPDATE statements of auto_update_statuses, each on the table
\* the one before it left.
UpdateOngoing(rows, now) ==
    [a \in DOMAIN rows |->
        IF /\ rows[a].status \in {"published", "ended"}
           /\ rows[a].start_time <= now
           /\ rows[a].end_time > now
           /\ ~rows[a].is_deleted
        THEN [rows[a] EXCEPT !.status = "ongoing"]
        ELSE rows[a]]

UpdateEnded(rows, now) ==
    [a \in DOMAIN rows |->
        IF /\ rows[a].status \in {"published", "ongoing"}
           /\ rows[a].end_time <= now
           /\ ~rows[a].is_deleted
        THEN [rows[a] EXCEPT !.status = "ended"]
        ELSE rows[a]]

UpdatePublished(rows, now) ==
    [a \in DOMAIN rows |->
        IF /\ rows[a].status \in {"ongoing", "ended"}
           /\ rows[a].start_time > now
           /\ ~rows[a].is_deleted
        THEN [rows[a] EXCEPT !.status = "published"]
        ELSE rows[a]]

\* auto_update_statuses on rows; before it, one that runs the UPDATE to
\* 'published' ahead of the UPDATE to 'ended'.
auto_update_statuses_published_first(rows, now) ==
    UpdateEnded(UpdatePublished(UpdateOngoing(rows, now), now), now)

auto_update_statuses_on(rows, now) ==
    UpdatePublished(UpdateEnded(UpdateOngoing(rows, now), now), now)

Instants == 0..MaxInstant

StatusRows ==
    [status : Status, is_deleted : BOOLEAN,
     start_time : Instants, end_time : Instants]

StatusUpdaterCalls ==
    [op : {"auto_update_statuses", "_check_and_fix_activity_statuses"},
     rows : [1..NumStatusRows -> StatusRows],
     now : Instants]

InitStatus ==
    /\ activities = [a \in Activities |->
                        [status |-> "published", is_deleted |-> FALSE,
                         bad_audience |-> FALSE,
                         profile |-> ((a - 1) % Len(ActivityProfiles)) + 1]]
    /\ user_logs = [u \in Users |-> [a \in Activities |-> 0]]
    /\ registrations = {}
    /\ Idle
    /\ call \in StatusUpdaterCalls
    /\ result = NoCall

CallAutoUpdateStatuses ==
    /\ call.op = "auto_update_statuses"
    /\ Returns(auto_update_statuses_on(call.rows, call.now))

CallCheckAndFixActivityStatuses ==
    /\ call.op = "_check_and_fix_activity_statuses"
    /\ Returns(_check_and_fix_activity_statuses(call.rows, call.now))

\* The updater runs again at the same instant on the table it left.
CallAgain ==
    /\ result # NoCall
    /\ call.op \in {"auto_update_statuses", "_check_and_fix_activity_statuses"}
    /\ result.value # call.rows
    /\ call' = [call EXCEPT !.rows = result.value]
    /\ result' = [op |-> call.op,
                   value |->
                     IF call.op = "auto_update_statuses"
                     THEN auto_update_statuses_on(result.value, call.now)
                     ELSE _check_and_fix_activity_statuses(result.value, call.now)]
    /\ UNCHANGED <<dbvars, reqvars, env_steps, regvars, served>>

NextStatus ==
    \/ CallAutoUpdateStatuses
    \/ CallCheckAndFixActivityStatuses
    \/ CallAgain

SpecStatus == InitStatus /\ [][NextStatus]_vars

(***************************************************************************)
(* The /registrations handlers: create_registration and                    *)
(* update_registration_status, one action per stretch between two awaits   *)
(* on the database, on NumRegRequests connections served concurrently.     *)
(* A row of registrations carries id, participant_id, activity_id, status  *)
(* and rating; a row of activities carries publisher_id and                *)
(* current_participants as well.  The activity registered for is published *)
(* by user 1 and takes max_participants = 2.                               *)
(***************************************************************************)
RegistrationStatus == {"pending", "approved", "rejected", "cancelled"}

RegActivities == {1}

RegUsers == 1..NumCalcUsers

RegInProgress(c) == reg_requests[c].pc \notin {"idle", "done"}

\* The connection the next request arrives on: the first that is not busy.
RegAccepts(c) ==
    /\ ~RegInProgress(c)
    /\ \A d \in 1..(c - 1) : RegInProgress(d)
    /\ reg_served < MaxRegServed

RegRow(registration_id) ==
    CHOOSE r \in registrations : r.id = registration_id

RegAnswer(c, request, code) ==
    reg_requests' = [reg_requests EXCEPT ![c] =
                        [request EXCEPT !.pc = "done", !.outcome = code]]

RegGoes(c, request, pc_next) ==
    reg_requests' = [reg_requests EXCEPT ![c] = [request EXCEPT !.pc = pc_next]]

\* POST /registrations/ up to the call of RegistrationDAO.create_registration:
\* the read of the activity and the three checks on it.
create_registration(c, participant_id, activity_id) ==
    /\ RegAccepts(c)
    /\ reg_served' = reg_served + 1
    /\ LET activity == activities[activity_id]
           request == [op |-> "create_registration", pc |-> "c_start",
                       user_id |-> participant_id, activity_id |-> activity_id,
                       exists |-> FALSE, outcome |-> 0]
       IN  IF activity.is_deleted THEN RegAnswer(c, request, 404)
           ELSE IF activity.status # "published" THEN RegAnswer(c, request, 400)
           ELSE IF activity.current_participants >= Content(activity_id).max_participants
                THEN RegAnswer(c, request, 400)
           ELSE RegGoes(c, request, "c_exists")
    /\ UNCHANGED <<dbvars, reqvars, env_steps, callvars, served>>

\* RegistrationDAO.create_registration: the exists() query.  When the user
\* is registered already the DAO returns None, and the handler goes on to
\* update_participants_count all the same.
CreateExists(c) ==
    /\ reg_requests[c].pc = "c_exists"
    /\ LET request == reg_requests[c]
           exists == \E r \in registrations :
                         /\ r.activity_id = request.activity_id
                         /\ r.participant_id = request.user_id
       IN  RegGoes(c, [request EXCEPT !.exists = exists],
                   IF exists THEN "count_up" ELSE "c_insert")
    /\ UNCHANGED <<dbvars, reqvars, env_steps, callvars, served, reg_served>>

\* self.create(...): the INSERT.  unique_together (participant, activity)
\* makes it raise IntegrityError when a row has appeared since exists();
\* the handler answers 400.
CreateInsert(c) ==
    /\ reg_requests[c].pc = "c_insert"
    /\ LET request == reg_requests[c]
       IN  IF \E r \in registrations :
                  /\ r.activity_id = request.activity_id
                  /\ r.participant_id = request.user_id
           THEN /\ RegAnswer(c, request, 400)
                /\ UNCHANGED registrations
           ELSE /\ registrations' = registrations \cup
                       {[id |-> Cardinality(registrations) + 1,
                         participant_id |-> request.user_id,
                         activity_id |-> request.activity_id,
                         status |-> "pending", rating |-> 0]}
                /\ RegGoes(c, request, "count_up")
    /\ UNCHANGED <<activities, user_logs, reqvars, env_steps, callvars, served, reg_served>>

\* PATCH /registrations/{id}/status follows; before it, a handler that
\* checks the caller and not the transition.
update_registration_status_any(c, current_user_id, registration_id, new_status) ==
    /\ RegAccepts(c)
    /\ reg_served' = reg_served + 1
    /\ LET request == [op |-> "update_registration_status", pc |-> "u_start",
                       user_id |-> current_user_id,
                       registration_id |-> registration_id,
                       activity_id |-> 0,
                       status |-> new_status, current_status |-> "",
                       old_status |-> "", outcome |-> 0]
       IN  IF ~\E r \in registrations : r.id = registration_id
           THEN RegAnswer(c, request, 404)
           ELSE LET registration == RegRow(registration_id)
                    seen == [request EXCEPT !.current_status = registration.status,
                                            !.activity_id = registration.activity_id]
                IN  IF /\ current_user_id # activities[registration.activity_id].publisher_id
                       /\ ~(/\ new_status = "cancelled"
                            /\ current_user_id = registration.participant_id)
                    THEN RegAnswer(c, seen, 403)
                    ELSE RegGoes(c, seen, "u_get")
    /\ UNCHANGED <<dbvars, reqvars, env_steps, callvars, served>>

\* PATCH /registrations/{id}/status up to the call of
\* RegistrationDAO.update_registration_status: get_registration_detail, the
\* check of the caller and the check of the transition.
update_registration_status(c, current_user_id, registration_id, new_status) ==
    /\ RegAccepts(c)
    /\ reg_served' = reg_served + 1
    /\ LET request == [op |-> "update_registration_status", pc |-> "u_start",
                       user_id |-> current_user_id,
                       registration_id |-> registration_id,
                       activity_id |-> 0,
                       status |-> new_status, current_status |-> "",
                       old_status |-> "", outcome |-> 0]
       IN  IF ~\E r \in registrations : r.id = registration_id
           THEN RegAnswer(c, request, 404)
           ELSE LET registration == RegRow(registration_id)
                    current_status == registration.status
                    seen == [request EXCEPT !.current_status = current_status,
                                            !.activity_id = registration.activity_id]
                IN  IF /\ current_user_id # activities[registration.activity_id].publisher_id
                       /\ ~(/\ new_status = "cancelled"
                            /\ current_user_id = registration.participant_id)
                    THEN RegAnswer(c, seen, 403)
                    ELSE IF current_status \in {"rejected", "cancelled"}
                    THEN RegAnswer(c, seen, 400)
                    ELSE IF current_status = "approved" /\ new_status \notin {"cancelled"}
                    THEN RegAnswer(c, seen, 400)
                    ELSE RegGoes(c, seen, "u_get")
    /\ UNCHANGED <<dbvars, reqvars, env_steps, callvars, served>>

\* RegistrationDAO.update_registration_status: get_by_id.
UpdateGetById(c) ==
    /\ reg_requests[c].pc = "u_get"
    /\ LET request == reg_requests[c]
       IN  RegGoes(c, [request EXCEPT !.old_status = RegRow(request.registration_id).status],
                   "u_save")
    /\ UNCHANGED <<dbvars, reqvars, env_steps, callvars, served, reg_served>>

\* registration.status = status; registration.save(), and the choice of the
\* count update from old_status.  Without one the handler reads the
\* registration again and answers 200.
UpdateSave(c) ==
    /\ reg_requests[c].pc = "u_save"
    /\ LET request == reg_requests[c]
           registration == RegRow(request.registration_id)
       IN  /\ registrations' = (registrations \ {registration})
                  \cup {[registration EXCEPT !.status = request.status]}
           /\ IF request.old_status # "approved" /\ request.status = "approved"
              THEN RegGoes(c, request, "count_up")
              ELSE IF request.old_status = "approved" /\ request.status # "approved"
              THEN RegGoes(c, request, "count_down")
              ELSE RegAnswer(c, request, 200)
    /\ UNCHANGED <<activities, user_logs, reqvars, env_steps, callvars, served, reg_served>>

\* ActivityDAO.update_participants_count: one UPDATE with
\* F('current_participants') + delta, and the handler's answer after it:
\* 201 or 200, or 500 when create_registration returns the None of the DAO.
update_participants_count(c) ==
    /\ reg_requests[c].pc \in {"count_up", "count_down"}
    /\ LET request == reg_requests[c]
           delta == IF request.pc = "count_up" THEN 1 ELSE -1
       IN  /\ activities' = [activities EXCEPT ![request.activity_id].current_participants = @ + delta]
           /\ RegAnswer(c, request,
                        IF request.op = "update_registration_status" THEN 200
                        ELSE IF request.exists THEN 500 ELSE 201)
    /\ UNCHANGED <<user_logs, registrations, reqvars, env_steps, callvars, served, reg_served>>

InitReg ==
    /\ activities = [a \in Activities |->
                        [status |-> "published", is_deleted |-> FALSE,
                         bad_audience |-> FALSE,
                         profile |-> ((a - 1) % Len(ActivityProfiles)) + 1,
                         publisher_id |-> 1, current_participants |-> 0]]
    /\ user_logs = [u \in RegUsers |-> [a \in Activities |-> 0]]
    /\ registrations = {}
    /\ Idle
    /\ call = NoCall
    /\ result = NoCall

RegCreates ==
    \E c \in 1..NumRegRequests, u \in RegUsers, a \in RegActivities :
        create_registration(c, u, a)

RegUpdates ==
    \E c \in 1..NumRegRequests, u \in RegUsers, new_status \in RegistrationStatus :
        \E registration_id \in 1..(Cardinality(registrations) + 1) :
            update_registration_status(c, u, registration_id, new_status)

RegExists == \E c \in 1..NumRegRequests : CreateExists(c)
RegInsert == \E c \in 1..NumRegRequests : CreateInsert(c)
RegGetById == \E c \in 1..NumRegRequests : UpdateGetById(c)
RegSave == \E c \in 1..NumRegRequests : UpdateSave(c)
RegCount == \E c \in 1..NumRegRequests : update_participants_count(c)

NextReg ==
    \/ RegCreates
    \/ RegUpdates
    \/ RegExists
    \/ RegInsert
    \/ RegGetById
    \/ RegSave
    \/ RegCount

SpecReg == InitReg /\ [][NextReg]_vars

\* The same handlers with the requests served one after another: a request
\* is accepted when no other is in progress.
RegNoneInProgress == \A c \in 1..NumRegRequests : ~RegInProgress(c)

RegCreatesSerial == RegNoneInProgress /\ RegCreates

RegUpdatesSerial == RegNoneInProgress /\ RegUpdates

NextRegSerial ==
    \/ RegCreatesSerial
    \/ RegUpdatesSerial
    \/ RegExists
    \/ RegInsert
    \/ RegGetById
    \/ RegSave
    \/ RegCount

SpecRegSerial == InitReg /\ [][NextRegSerial]_vars

(***************************************************************************)
(* The properties.                                                         *)
(***************************************************************************)
Ids(recommendations) ==
    {recommendations[i].activity_id : i \in DOMAIN recommendations}

Distinct(s) == \A i, j \in DOMAIN s : i # j => s[i] # s[j]

Answered == pc = "done" /\ outcome = "ok"

\* _filter_recommendations has returned in this request.
Filtered ==
    /\ pc \in {"b_fetch", "b_log", "done"}
    /\ outcome # "error"
    /\ recs # <<>>
    /\ params.exclude_viewed \/ params.exclude_registered \/ params.exclude_ended

\* C1: no activity_id occurs more than once in the list the engine returns
\* nor in the list of a for-me / debug response.
C1_NoDuplicateActivity ==
    /\ Distinct([i \in DOMAIN recs |-> recs[i].activity_id])
    /\ Distinct([i \in DOMAIN final |-> final[i].activity_id])
    /\ Distinct([i \in DOMAIN items |-> items[i].activity.id])

C1_Witness == Answered /\ Len(recs) >= 2 /\ Len(items) >= 2

\* C2: the list of a for-me response is in non-increasing order of the
\* returned recommendation_score and has at most count entries.
C2_SortedAndBounded ==
    params.endpoint = "for-me" =>
        /\ Len(items) <= params.count
        /\ IsSortedDesc(items, "recommendation_score")

C2_Witness ==
    /\ Answered
    /\ params.endpoint = "for-me"
    /\ Len(items) = 2
    /\ items[1].activity.id = recs[2].activity_id
    /\ items[1].recommendation_score > items[2].recommendation_score

\* C3: no Layer-1 survivor is discarded because of count before the
\* penalties, the ended filter and the noise re-sort run: the list the
\* handler adjusts holds every survivor.
C3_TruncationAfterAdjustments ==
    (params.endpoint = "for-me" /\ recs # <<>>) => Ids(recs) = survivors

\* C4: the score_breakdown of each item of a for-me response carries the
\* four layer scores the engine computed for the activity, and the item's
\* recommendation_score as final_score.
C4_BreakdownMatchesEngine ==
    params.endpoint = "for-me" =>
        \A i \in DOMAIN items :
            LET engine == final[i].score_breakdown
                shown == items[i].score_breakdown
            IN  /\ shown.content_filter_score = engine.content_match
                /\ shown.hotness_score = engine.hotness
                /\ shown.collaborative_score = engine.collaborative
                /\ shown.freshness_score = engine.freshness
                /\ shown.final_score = items[i].recommendation_score

\* The factor C5 states, in percent: 0.7 for each set flag whose set holds
\* the activity.
C5_ExpectedPct(activity_id) ==
    LET matches ==
            (IF params.exclude_viewed /\ activity_id \in fl.viewed THEN 1 ELSE 0)
          + (IF params.exclude_registered /\ activity_id \in fl.registered
             THEN 1 ELSE 0)
    IN  IF matches = 2 THEN 49 ELSE IF matches = 1 THEN 70 ELSE 100

C5_Scores ==
    \A i \in DOMAIN fl.adjusted :
        \E j \in DOMAIN recs :
            /\ recs[j].activity_id = fl.adjusted[i].activity_id
            /\ fl.adjusted[i].recommendation_score * 100
                   = recs[j].recommendation_score
                         * C5_ExpectedPct(recs[j].activity_id)

C5_Keeps ==
    LET step == env_steps' = env_steps
    IN  /\ (pc = "f_item" /\ step) =>
               (recs[idx].activity_id \in Ids(fl'.adjusted)
                    <=> activities[recs[idx].activity_id].status # "ended")
        /\ (/\ pc \in {"f_viewed", "f_registered"}
            /\ step
            /\ pc' \notin {"f_registered", "f_item"}) =>
               /\ Len(fl'.adjusted) = Len(recs)
               /\ Ids(fl'.adjusted) = Ids(recs)

Unpenalised(adjusted_item) ==
    CHOOSE rec \in {recs[j] : j \in DOMAIN recs} :
        rec.activity_id = adjusted_item.activity_id

C6_NeverRemoved ==
    (Filtered /\ params.exclude_viewed /\ ~params.exclude_ended) =>
        \A j \in DOMAIN recs :
            recs[j].activity_id \in fl.viewed =>
                recs[j].activity_id \in Ids(fl.adjusted)

C7_NoEndedInResponse ==
    (params.endpoint = "for-me" /\ params.exclude_ended) =>
        \A i \in DOMAIN items : items[i].activity.status # "ended"

\* C8: every activity of a for-me response is non-deleted and published or
\* ongoing when its item is built, also when it is soft-deleted or its
\* status changed while the request runs.
C8_ResponseRecommendable ==
    params.endpoint = "for-me" =>
        \A i \in DOMAIN items :
            /\ ~items[i].activity.is_deleted
            /\ items[i].activity.status \in {"published", "ongoing"}

\* C9: an error raised while scoring one candidate never reaches the caller
\* of recommend_activities.
C9_ErrorNotPropagated == outcome # "error"

\* C10: when the view log of a recommended activity cannot be written, the
\* for-me request still answers successfully with that activity in its
\* list; the failure shows only as the value False of log_activity_view.
C10_LogFailureTolerated ==
    params.endpoint = "for-me" =>
        /\ items # <<>> => outcome # "error"
        /\ Len(log_results) <= Len(items)
        /\ Answered =>
               /\ Len(items) = Len(final)
               /\ Len(log_results) = Len(items)
               /\ \A i \in DOMAIN items :
                      items[i].activity.id = final[i].activity_id

C10_Witness ==
    /\ Answered
    /\ params.endpoint = "for-me"
    /\ \E i \in DOMAIN log_results :
           /\ log_results[i] = FALSE
           /\ items[i].activity.id = final[i].activity_id

Returned(op) == call.op = op /\ result # NoCall

Lowest(scores) ==
    CHOOSE m \in {scores[k] : k \in DOMAIN scores} :
        \A k \in DOMAIN scores : m <= scores[k]

Highest(scores) ==
    CHOOSE m \in {scores[k] : k \in DOMAIN scores} :
        \A k \in DOMAIN scores : m >= scores[k]

\* The value is within [min(scores), max(scores)], up to half a hundredth of
\* a point.
C14_Within ==
    /\ 2 * result.value >= 2 * Lowest(call.scores) - 100
    /\ 2 * result.value <= 2 * Highest(call.scores) + 100

\* C14 as stated: for every scores map and every weights map whose values
\* sum to 1.0, weighted_fusion returns a value within [min(scores),
\* max(scores)] up to the 2-decimal rounding.
C14_WithinForUnitSum ==
    (Returned("weighted_fusion")
        /\ SumOver(DOMAIN call.weights, call.weights) = 100)
    => C14_Within

\* C14, amended: for every scores map and every weights map whose values
\* are non-negative and sum to 1.0 and whose keys are keys of the scores
\* map, weighted_fusion returns a value within [min(scores), max(scores)]
\* up to the 2-decimal rounding.
C14_WithinForConvexWeights ==
    (Returned("weighted_fusion")
        /\ SumOver(DOMAIN call.weights, call.weights) = 100
        /\ \A k \in DOMAIN call.weights : call.weights[k] >= 0
        /\ DOMAIN call.weights \subseteq DOMAIN call.scores)
    => C14_Within

C14_Witness ==
    /\ Returned("weighted_fusion")
    /\ call.weights = [grade |-> 30, tags |-> 70]
    /\ call.scores = [grade |-> Points(100), tags |-> Points(20)]
    /\ result.value = Points(44)

\* C17: time_proximity_score is 0 when the start is not after now; with d
\* whole days until the start it is (1 - d/days_ahead)*100 (to two decimals)
\* for d <= days_ahead and 20 for d > days_ahead; always within [0, 100].
C17_TimeProximity ==
    Returned("time_proximity_score") =>
        LET d == call.days_until_start
            n == call.days_ahead
            v == result.value
        IN  /\ d < 0 => v = 0
            /\ (0 <= d /\ d <= n) =>
                   /\ 2 * (v * n - Points(100) * (n - d)) <= 100 * n
                   /\ 2 * (Points(100) * (n - d) - v * n) <= 100 * n
            /\ d = 0 => v = Points(100)
            /\ d = n => v = 0
            /\ d > n => v = Points(20)
            /\ 0 <= v /\ v <= Points(100)

C17_Witness ==
    /\ Returned("time_proximity_score")
    /\ call.days_until_start = 1
    /\ call.days_ahead = DaysAhead
    /\ result.value = Points(96) + 6700

\* C20: the reasons are never empty; each of the interest, popularity,
\* freshness and similar-users reasons is present exactly when
\* content_filter > 70, hotness > 65, freshness > 70, collaborative > 30,
\* and the fallback reason exactly when none of them is.
C20_Reasons ==
    Returned("_generate_reasons") =>
        LET given == {result.value[i] : i \in DOMAIN result.value}
            sc == call.scores
        IN  /\ result.value # <<>>
            /\ "interest" \in given <=> sc.content_filter > Points(70)
            /\ "popular" \in given <=> sc.hotness > Points(65)
            /\ "fresh" \in given <=> sc.freshness > Points(70)
            /\ "similar_users" \in given <=> sc.collaborative > Points(30)
            /\ "fallback" \in given <=>
                   /\ sc.content_filter <= Points(70)
                   /\ sc.hotness <= Points(65)
                   /\ sc.freshness <= Points(70)
                   /\ sc.collaborative <= Points(30)
            /\ given \subseteq {"interest", "popular", "fresh", "similar_users",
                                "fallback"}

C20_Witness ==
    /\ Returned("_generate_reasons")
    /\ call.scores = [content_filter |-> Points(70), hotness |-> Points(65) + 100,
                      freshness |-> Points(70), collaborative |-> Points(30) + 100]
    /\ result.value = <<"popular", "similar_users">>

\* C11: recommend_activities for a user_id that has no row in users returns
\* the empty list, and the only table it queries is users: no candidate,
\* behaviour-log or similarity query runs.
C11_UnknownUserEmpty ==
    (Returned("recommend_activities") /\ call.user_id \notin UserIds) =>
        /\ result.value.recommendations = <<>>
        /\ result.value.queried = {"users"}

\* The unknown id asks while the tables hold candidates and view logs.
C11_Witness ==
    /\ Returned("recommend_activities")
    /\ call.user_id = UnknownUserId
    /\ call.user_id \notin UserIds
    /\ get_all_recommendable_activities # <<>>
    /\ \A u \in UserIds : get_user_viewed_activities(u) # {}
    /\ result.value.recommendations = <<>>

\* The request is inside recommend_activities.
EngineRuns == pc \in {"l1_viewed", "l1_registered", "l1_fetch", "hotness", "collab"}

\* No step of recommend_activities changes a table.
C12_EngineWritesNothing ==
    [][(EngineRuns /\ env_steps' = env_steps) => UNCHANGED dbvars]_vars

\* With no write of another handler since the request began, what the engine
\* returned step by step is what the call returns when run alone on the
\* tables.
C12_SoloResult ==
    (pc # "idle" /\ ~EngineRuns /\ env_steps = 0 /\ log_results = <<>>) =>
        recs = recommend_activities(params.user_id, params.count,
                                    params.layer_weights,
                                    params.content_match_threshold,
                                    DefaultHotnessWeights,
                                    params.collaborative_users_limit,
                                    params.freshness_half_life)

C13_LayerScoresInRange ==
    Returned("recommend_activities") =>
        \A i \in DOMAIN result.value.recommendations :
            LET score_breakdown == result.value.recommendations[i].score_breakdown
            IN  \A layer \in DOMAIN score_breakdown :
                    /\ 0 <= score_breakdown[layer]
                    /\ score_breakdown[layer] <= Points(100)

\* The content match of an activity for a user before any demotion, with the
\* weights of the three components written out: grade 0.25, tags 0.50,
\* time 0.25.
C15_ContentMatch(a, user_id) ==
    Round2(25 * grade_match_score(profile_attributes(user_id).grade,
                                  Content(a).Targeted_people)
             + 50 * calculate_tag_match_score(profile_attributes(user_id).hobby,
                                              Content(a).tags,
                                              Content(a).Activity_class)
             + 25 * time_proximity_score(Content(a).start_days, DaysAhead),
           100)

\* C15: Layer 1 keeps a candidate exactly when its undemoted content match is
\* at least match_threshold * 100; having been viewed or registered never
\* removes it and only halves the content_match_score recorded for it.
C15_ThresholdBeforeDemotion ==
    Returned("_layer_content_filter") =>
        LET kept == result.value
            candidates ==
                {a \in Activities : /\ ~activities[a].is_deleted
                                    /\ activities[a].status \in {"published", "ongoing"}}
        IN  /\ {kept[i].activity.id : i \in DOMAIN kept} =
                   {a \in candidates :
                        C15_ContentMatch(a, call.user_id) >= Points(call.match_threshold)}
            /\ \A i \in DOMAIN kept :
                   IF kept[i].activity.id \in Engaged(call.user_id)
                   THEN 2 * kept[i].content_match_score =
                            C15_ContentMatch(kept[i].activity.id, call.user_id)
                   ELSE kept[i].content_match_score =
                            C15_ContentMatch(kept[i].activity.id, call.user_id)

\* A viewed activity is kept with a recorded score below the threshold while
\* another candidate is dropped.
C15_Witness ==
    /\ Returned("_layer_content_filter")
    /\ Len(result.value) < NumActivities
    /\ \E i \in DOMAIN result.value :
           /\ result.value[i].activity.id \in get_user_viewed_activities(call.user_id)
           /\ result.value[i].content_match_score < Points(call.match_threshold)
           /\ result.value[i].content_match_score > 0

\* The claim's case: Layer 1 with threshold 0.1 for a user whose hobbies are
\* music and coding, and a candidate tagged music alone, with no activity
\* class, that the user has neither viewed nor registered for.
C16_Case(a) ==
    /\ Returned("_layer_content_filter")
    /\ call.match_threshold = DefaultThresholdPct
    /\ profile_attributes(call.user_id).hobby = {"music", "coding"}
    /\ Content(a).tags = {"music"}
    /\ Content(a).Activity_class = {}
    /\ a \notin Engaged(call.user_id)

C16_Kept(a) == {i \in DOMAIN result.value : result.value[i].activity.id = a}

\* C16 as stated: that candidate survives Layer 1 with content_match_score
\* = 50.0, the tag Jaccard similarity times 100.
C16_ScoreIsTagScore ==
    \A a \in Activities :
        C16_Case(a) =>
            /\ C16_Kept(a) # {}
            /\ \A i \in C16_Kept(a) : result.value[i].content_match_score = Points(50)

\* C16, amended: that candidate survives Layer 1; the tag score 50.0 enters
\* its content_match_score with weight 0.50 next to the grade match and the
\* time proximity with 0.25 each, so the score is
\* 25 + 0.25 * grade + 0.25 * time, between 25.0 and 75.0.
C16_TagScoreIsHalfTheMatch ==
    \A a \in Activities :
        C16_Case(a) =>
            /\ C16_Kept(a) # {}
            /\ \A i \in C16_Kept(a) :
                   LET grade == grade_match_score(profile_attributes(call.user_id).grade,
                                                  Content(a).Targeted_people)
                       time == time_proximity_score(Content(a).start_days, DaysAhead)
                       score == result.value[i].content_match_score
                   IN  /\ score = Round2(25 * grade + 50 * Points(50) + 25 * time, 100)
                       /\ Points(25) <= score
                       /\ score <= Points(75)

\* Two such candidates: one starting in 3 days scores 60.0, one starting in
\* 15 days scores 50.0 in another snapshot; here the first.
C16_Witness ==
    \E a \in Activities :
        /\ C16_Case(a)
        /\ Content(a).start_days = 3
        /\ \E i \in C16_Kept(a) : result.value[i].content_match_score = Points(60)

C18_Common(u, v) == Cardinality(Engaged(u) \cap Engaged(v))

C18_Union(u, v) == Cardinality(Engaged(u) \cup Engaged(v))

\* similarity, in thousandths, is |A_u \cap A_v| / |A_u \cup A_v| to within
\* the rounding to three decimals.
C18_IsJaccard(similarity, u, v) ==
    /\ 2 * (similarity * C18_Union(u, v) - 1000 * C18_Common(u, v)) <= C18_Union(u, v)
    /\ 2 * (1000 * C18_Common(u, v) - similarity * C18_Union(u, v)) <= C18_Union(u, v)

\* v's Jaccard similarity to u is not above the returned similarity, to
\* within the same rounding.
C18_NotAbove(u, v, similarity) ==
    2 * 1000 * C18_Common(u, v) <= (2 * similarity + 1) * C18_Union(u, v)

\* C18: get_similar_users(u, min_common, limit) never returns u, returns
\* each user at most once and only users sharing at least min_common viewed
\* or registered activities with u, each with the Jaccard similarity of the
\* two activity sets, in non-increasing order of similarity and at most
\* limit of them; no qualifying user left out has a higher similarity than a
\* returned one; and the list is empty when u has no such activity.
C18_SimilarUsers ==
    Returned("get_similar_users") =>
        LET u == call.user_id
            similar_users == result.value
            returned == {similar_users[i].user_id : i \in DOMAIN similar_users}
            left_out == {v \in UserIds \ ({u} \cup returned) :
                            C18_Common(u, v) >= call.min_common_activities}
        IN  /\ u \notin returned
            /\ returned \subseteq UserIds
            /\ Cardinality(returned) = Len(similar_users)
            /\ \A i \in DOMAIN similar_users :
                   /\ C18_Common(u, similar_users[i].user_id) >= call.min_common_activities
                   /\ C18_IsJaccard(similar_users[i].similarity, u, similar_users[i].user_id)
            /\ \A i, j \in DOMAIN similar_users :
                   i < j => similar_users[i].similarity >= similar_users[j].similarity
            /\ Len(similar_users) <= call.limit
            /\ \A v \in left_out : \A i \in DOMAIN similar_users :
                   C18_NotAbove(u, v, similar_users[i].similarity)
            /\ Engaged(u) = {} => similar_users = <<>>

\* With limit 1, the user with the higher id is returned and a qualifying
\* user with a lower similarity is left out.
C18_Witness ==
    /\ Returned("get_similar_users")
    /\ call.limit = 1
    /\ Len(result.value) = 1
    /\ \E v \in UserIds \ {call.user_id} :
           /\ v < result.value[1].user_id
           /\ C18_Common(call.user_id, v) >= call.min_common_activities
           /\ ~C18_NotAbove(call.user_id, result.value[1].user_id,
                            RoundDiv(1000 * C18_Common(call.user_id, v),
                                     C18_Union(call.user_id, v)))

\* The similar users get_activities_from_similar_users selects for a user:
\* those sharing at least two activities, best first, up to the limit.
C19_Selected(u, similar_users_limit) ==
    get_similar_users(u, MinCommonActivities, similar_users_limit)

\* The keys are the activities some selected user engaged with and u did
\* not; each value is the sum of the similarities of the selected users who
\* engaged with the activity.
C19_ScoresOfSimilarUsers ==
    Returned("get_activities_from_similar_users") =>
        LET u == call.user_id
            selected == C19_Selected(u, call.similar_users_limit)
            engaged_by(a) == {i \in DOMAIN selected : a \in Engaged(selected[i].user_id)}
            activity_scores == result.value
        IN  /\ DOMAIN activity_scores =
                   {a \in Activities : a \notin Engaged(u) /\ engaged_by(a) # {}}
            /\ \A a \in DOMAIN activity_scores :
                   activity_scores[a] =
                       SumOver(engaged_by(a),
                               [i \in DOMAIN selected |-> selected[i].similarity])

\* In what recommend_activities returns, an activity the user has viewed or
\* registered for has collaborative score 0.
C19_EngagedScoreZero ==
    Returned("recommend_activities") =>
        \A i \in DOMAIN result.value.recommendations :
            result.value.recommendations[i].activity_id \in Engaged(call.user_id) =>
                result.value.recommendations[i].score_breakdown.collaborative = 0

\* C19: get_activities_from_similar_users(u) returns a map whose keys are
\* exactly the activities engaged by at least one selected similar user and
\* not by u, each valued with the sum of the similarities of the selected
\* users who engaged with it; so, on one snapshot of the tables, every
\* activity u has viewed or registered for has collaborative score 0 in the
\* engine's output.
C19_CollaborativeScores == C19_ScoresOfSimilarUsers /\ C19_EngagedScoreZero

\* Two selected users, each of similarity 0.667, both engaged with an
\* activity the user has not: its score is 1.334.
C19_Witness ==
    /\ Returned("get_activities_from_similar_users")
    /\ Len(C19_Selected(call.user_id, call.similar_users_limit)) = 2
    /\ Engaged(call.user_id) # {}
    /\ \E a \in DOMAIN result.value : result.value[a] = 1334

\* The pre-noise score of an activity of the call, and the place and score
\* it has in the returned list.
C21_Before(a) ==
    call.recommendations[CHOOSE i \in DOMAIN call.recommendations :
                             call.recommendations[i].activity_id = a].recommendation_score

C21_Place(a) ==
    CHOOSE p \in DOMAIN result.value : result.value[p].activity_id = a

C21_After(a) == result.value[C21_Place(a)].recommendation_score

\* C21: _add_randomness_to_scores returns the activities it was given, each
\* once; the returned score s' of an item whose score was s >= 0 satisfies
\* 0.92 * s <= s' <= 1.08 * s to within the rounding to two decimals, and
\* s' >= 0; and the returned list is in non-increasing order of s'.
C21_NoiseBounded ==
    Returned("_add_randomness_to_scores") =>
        /\ Len(result.value) = Len(call.recommendations)
        /\ Ids(result.value) = Ids(call.recommendations)
        /\ \A a \in Ids(call.recommendations) :
               /\ C21_After(a) >= 0
               /\ 1000 * (C21_After(a) + 50) >= 920 * C21_Before(a)
               /\ 1000 * (C21_After(a) - 50) <= 1080 * C21_Before(a)
        /\ \A p, q \in DOMAIN result.value :
               p < q => result.value[p].recommendation_score
                            >= result.value[q].recommendation_score

\* The noise has turned the order of the first two items round, the second
\* ending 8% up at 54.0 and the first 8% down at 46.0.
C21_Witness ==
    /\ Returned("_add_randomness_to_scores")
    /\ C21_Before(1) = Points(50)
    /\ C21_Before(2) = Points(50)
    /\ C21_After(1) = Points(46)
    /\ C21_After(2) = Points(54)
    /\ C21_Place(2) < C21_Place(1)

\* Items a, b of the call with 0.92 * score(a) > 1.08 * score(b).
C22_FarApart(a, b) ==
    /\ a \in Ids(call.recommendations)
    /\ b \in Ids(call.recommendations)
    /\ 920 * C21_Before(a) > 1080 * C21_Before(b)

RegHasStatus(rows, registration_id, statuses) ==
    \E r \in rows : r.id = registration_id /\ r.status \in statuses

\* Connection c takes up an update_registration_status request in this step.
RegUpdateArrives(c) ==
    /\ reg_served' = reg_served + 1
    /\ reg_requests'[c] # reg_requests[c]
    /\ reg_requests'[c].op = "update_registration_status"

RegSaves(c) == reg_requests[c].pc = "u_save" /\ reg_requests'[c].pc # "u_save"

\* C24: a registration's status is written only for the activity's
\* publisher, or for the participant cancelling their own registration
\* while it is pending; approved -> cancelled is written for the publisher
\* alone.
C24_OnlyPublisherOrPendingOwner ==
    [][\A c \in 1..NumRegRequests :
           RegSaves(c) =>
               LET request == reg_requests[c]
                   registration == RegRow(request.registration_id)
               IN  \/ request.user_id = activities[registration.activity_id].publisher_id
                   \/ /\ request.user_id = registration.participant_id
                      /\ request.status = "cancelled"
                      /\ registration.status = "pending"]_vars

\* C28: whatever create_registration and update_registration_status
\* requests are served, in whatever interleaving, current_participants of
\* an activity is never above its max_participants and never negative.
C28_ParticipantsWithinCapacity ==
    \A a \in RegActivities :
        /\ activities[a].current_participants >= 0
        /\ activities[a].current_participants <= Content(a).max_participants

\* At most one registration per participant and activity.
C29_OnePerParticipant ==
    \A r1, r2 \in registrations :
        (r1.participant_id = r2.participant_id /\ r1.activity_id = r2.activity_id)
            => r1 = r2

\* No step of a create_registration request that found the user registered
\* already changes a table.
C29_DuplicateChangesNothing ==
    [][\A c \in 1..NumRegRequests :
           (/\ reg_requests[c].op = "create_registration"
            /\ reg_requests[c].exists
            /\ reg_requests'[c] # reg_requests[c]) => UNCHANGED dbvars]_vars

\* C29: a create_registration request of a user who has a registration for
\* the activity creates no second one - there is at most one registration
\* per participant and activity at all times - and leaves the activity's
\* current_participants as it was.
C29_NoSecondRegistration == []C29_OnePerParticipant /\ C29_DuplicateChangesNothing

\* C25: in the list recommend_activities returns, items of equal
\* recommendation_score stand in non-increasing order of their hotness
\* score.
C25_TiesInHotnessOrder ==
    Returned("recommend_activities") =>
        \A i, j \in DOMAIN result.value.recommendations :
            (/\ i < j
             /\ result.value.recommendations[i].recommendation_score =
                    result.value.recommendations[j].recommendation_score) =>
                result.value.recommendations[i].score_breakdown.hotness >=
                    result.value.recommendations[j].score_breakdown.hotness

\* Two items tied on the composite score, the one with the higher id and
\* the higher hotness first.
C25_Witness ==
    /\ Returned("recommend_activities")
    /\ \E i, j \in DOMAIN result.value.recommendations :
           /\ i < j
           /\ result.value.recommendations[i].recommendation_score =
                  result.value.recommendations[j].recommendation_score
           /\ result.value.recommendations[i].score_breakdown.hotness >
                  result.value.recommendations[j].score_breakdown.hotness
           /\ result.value.recommendations[i].activity_id >
                  result.value.recommendations[j].activity_id


(***************************************************************************)
(* C26                                                                     *)
(***************************************************************************)
\* The activities of the for-me responses of user_id whose views were all
\* logged: those already sent, and the one of the request that has just
\* completed.
C26_Shown(user_id) ==
    UNION ({served[i].activity_ids :
               i \in {k \in DOMAIN served :
                         /\ served[k].op = "for-me"
                         /\ served[k].user_id = user_id
                         /\ served[k].activity_ids \subseteq served[k].logged}}
           \cup {IF /\ pc = "done" /\ outcome = "ok"
                    /\ params.endpoint = "for-me" /\ params.user_id = user_id
                    /\ \A i \in DOMAIN log_results : log_results[i]
                 THEN {items[i].activity.id : i \in DOMAIN items}
                 ELSE {}})

\* The activities of the for-me responses of user_id already sent whose
\* views were all logged.
C26_ShownEarlier(user_id) ==
    UNION {served[i].activity_ids :
              i \in {k \in DOMAIN served :
                        /\ served[k].op = "for-me"
                        /\ served[k].user_id = user_id
                        /\ served[k].activity_ids \subseteq served[k].logged}}

\* A view log row of user_id for activity_id has been deleted.
C26_LogDeleted(user_id, activity_id) ==
    \E i \in DOMAIN served :
        /\ served[i].op = "delete_log"
        /\ served[i].user_id = user_id
        /\ activity_id \in served[i].activity_ids

\* The request in progress treats activity_id as viewed: Layer 1 records
\* half its content match, and with exclude_viewed the filter multiplies
\* its score by 0.7.
C26_TreatedAsViewed(activity_id) ==
    /\ pc = "hotness" =>
           \A i \in DOMAIN cands :
               cands[i].activity.id = activity_id =>
                   /\ cands[i].is_viewed_or_registered
                   /\ 2 * cands[i].content_match_score =
                          C15_ContentMatch(activity_id, params.user_id)
    /\ (params.exclude_viewed /\ pc \in {"f_item", "b_fetch", "b_log", "done"}) =>
           \A i \in DOMAIN fl.adjusted :
               fl.adjusted[i].activity_id = activity_id =>
                   /\ activity_id \in fl.viewed
                   /\ \E j \in DOMAIN recs :
                          /\ recs[j].activity_id = activity_id
                          /\ fl.adjusted[i].recommendation_score * 100
                                 <= recs[j].recommendation_score * PenaltyPct

\* What C26 states of a state, for the activities in except nothing is
\* stated.
C26_ShownIsViewed(except) ==
    \A u \in Requesters :
        /\ \A a \in C26_Shown(u) :
               <<u, a>> \notin except => a \in get_user_viewed_activities(u)
        /\ \A a \in C26_ShownEarlier(u) :
               (<<u, a>> \notin except /\ params.user_id = u) =>
                   C26_TreatedAsViewed(a)

C26_Deleted ==
    {ua \in Users \X Activities : C26_LogDeleted(ua[1], ua[2])}

\* C26 as stated: once a for-me request has completed and logged every view,
\* each activity of its response is in the user's viewed set and every later
\* request of the user treats it as viewed, and no step takes an activity
\* out of a user's viewed set.
C26_ShownStaysViewed ==
    [][/\ C26_ShownIsViewed({})'
       /\ \A u \in Users :
              get_user_viewed_activities(u) \subseteq get_user_viewed_activities(u)'
      ]_vars

\* C26 with its exception: the same, except for the activities of which an
\* administrator has deleted a view log row of the user (DELETE
\* /user-logs/{log_id}); only such a deletion takes an activity out of a
\* viewed set.
C26_ShownStaysViewedUnlessDeleted ==
    [][/\ C26_ShownIsViewed(C26_Deleted)'
       /\ \A u \in Users :
              \A a \in get_user_viewed_activities(u) :
                  a \notin get_user_viewed_activities(u)' =>
                      <<u, a>> \in C26_Deleted' \ C26_Deleted
      ]_vars

\* A second for-me request with exclude_viewed has answered with an activity
\* that an earlier response showed and logged, no log row having been
\* deleted.
C26_Witness ==
    /\ C26_Deleted = {}
    /\ pc = "done" /\ outcome = "ok"
    /\ params.endpoint = "for-me" /\ params.exclude_viewed
    /\ \E i \in DOMAIN items :
           /\ items[i].activity.id \in C26_ShownEarlier(params.user_id)
           /\ items[i].activity.id \in Ids(fl.adjusted)

(***************************************************************************)
(* C27                                                                     *)
(***************************************************************************)
\* C27: within one for-me request with exclude_viewed, an item whose score
\* _filter_recommendations multiplied by 0.7 as viewed had its
\* content_match_score halved in Layer 1, whatever view logs of the user
\* other requests write meanwhile.
C27_PenalisedOnlyIfHalved ==
    (params.endpoint = "for-me" /\ params.exclude_viewed) =>
        \A i \in DOMAIN fl.adjusted :
            fl.adjusted[i].activity_id \in fl.viewed =>
                \E j \in DOMAIN cands :
                    /\ cands[j].activity.id = fl.adjusted[i].activity_id
                    /\ cands[j].is_viewed_or_registered

(***************************************************************************)
(* C30                                                                     *)
(***************************************************************************)
\* The status C30 states for a row at the instant now.
C30_Status(row, now) ==
    IF row.is_deleted \/ row.status \in {"draft", "cancelled"} THEN row.status
    ELSE IF now < row.start_time THEN "published"
    ELSE IF row.start_time <= now /\ now < row.end_time THEN "ongoing"
    ELSE "ended"

\* C30: auto_update_statuses and _check_and_fix_activity_statuses leave
\* every activity in the same status: for a non-deleted published, ongoing
\* or ended activity 'published' before start_time, 'ongoing' from
\* start_time until end_time, 'ended' otherwise; draft, cancelled and
\* deleted activities keep theirs; and a second run at the same instant
\* changes nothing.
C30_UpdatersAgree ==
    (Returned("auto_update_statuses") \/ Returned("_check_and_fix_activity_statuses")) =>
        /\ auto_update_statuses_on(call.rows, call.now) =
               _check_and_fix_activity_statuses(call.rows, call.now)
        /\ result.value =
               [a \in DOMAIN call.rows |->
                   [call.rows[a] EXCEPT !.status = C30_Status(call.rows[a], call.now)]]
        /\ auto_update_statuses_on(result.value, call.now) = result.value
        /\ _check_and_fix_activity_statuses(result.value, call.now) = result.value

\* auto_update_statuses has run on an ongoing activity whose end_time is
\* past and whose start_time is still ahead, and left it published.
C30_Witness ==
    /\ Returned("auto_update_statuses")
    /\ \E a \in DOMAIN call.rows :
           /\ call.rows[a].status = "ongoing"
           /\ ~call.rows[a].is_deleted
           /\ call.rows[a].end_time <= call.now
           /\ call.now < call.rows[a].start_time
           /\ result.value[a].status = "published"

=============================================================================
